---- MODULE Spec2Model ----
(***************************************************************************)
(* The weru cache: one engine (local or Redis), the named caches it hands  *)
(* out, and concurrent callers issuing get / pop / put / replace.          *)
(*                                                                         *)
(* Time is counted in ticks of half a millisecond, so that a Duration that *)
(* is not a whole number of milliseconds exists and `ttl.as_millis()`      *)
(* truncates as it does in the code.                                       *)
(*                                                                         *)
(* The Redis server is not part of the repository.  It is modelled by the  *)
(* documented behaviour of the commands the code sends: each command is    *)
(* executed atomically by the server, a key whose expiry has been reached  *)
(* does not exist, and SET with an expire time that is not positive is     *)
(* answered with an error.                                                 *)
(*                                                                         *)
(* Spec is one caller calling operations one after another, over every     *)
(* argument; SpecRace is two callers whose operations overlap.  The        *)
(* variables marked (history) record what happened and influence nothing.  *)
(***************************************************************************)
EXTENDS Integers, Sequences, FiniteSets, TLC

\* ------------------------------------------------------------------ bounds
\* The clock stops at MaxTime ticks.
MaxTime == 3
\* At most MaxOps cache operations are called in one behaviour.
MaxOps == 3

\* The clock of the behaviours in which two callers race stops at RaceTime.
RaceTime == 2

\* Ticks per millisecond: Duration is finer than the milliseconds of PX.
TicksPerMilli == 2

\* --------------------------------------------------------------- universes
Callers == {1, 2}
\* The caller of the behaviours in which operations follow one another.
Solo == {1}
\* Cache names, keys and values are strings: sequences of bytes.
Names == {<<110>>}
Keys == {<<1>>}
Vals == {<<5>>, <<6>>}
\* Durations, in ticks: zero, under a millisecond, one millisecond, one and
\* a half.
Ttls == {0, 1, 2, 3}
\* The durations used when two callers race: one millisecond.
RaceTtls == {2}
\* The prefix of the Redis configuration.
Prefix == <<116>>

VARIABLES
    backend,    \* the variant of Engine, fixed at construction
    now,        \* the clock: Instant::now() and the server's clock
    data,       \* local Engine.data: name -> Buffer.data (key bytes -> Data)
    mutex,      \* local: name -> the caller holding that buffer's Mutex, 0 if free
    db,         \* the Redis keyspace: key bytes -> Data
    handle,     \* per caller: the name of its Cache handle, <<>> before cache()
    pc,         \* per caller: where it is in the operation it called
    req,        \* per caller: the operation in flight and its arguments
    tmp,        \* per caller: the Data taken by replace's remove, and when
    res,        \* per caller: what its last completed operation returned (history)
    ndone,      \* number of completed operations (history)
    nid,        \* number of writes made, the id of the latest (history)
    hist,       \* per stored key: the last put, replace or pop that changed it (history)
    registry,   \* local Engine.data: name -> the buffer created for it
    guard,      \* the caller holding the Mutex of the local Engine.data, 0 if free
    cname,      \* per caller: the name it passed to cache()
    vtype,      \* per caller: the value type V of its Cache<K, V> handle
    raced,      \* two calls of cache() were in progress at once (history)
    remote,     \* per Redis engine: its prefix, the key and the channel it last addressed
    poisoned,   \* local: the buffers whose Mutex is poisoned
    attempt,    \* per caller: the step at which its call last failed (history)
    twin,       \* a local buffer and a Redis keyspace given the same calls
    bus,        \* local channel: the Bus of the topic, its events and its readers
    pubsub,     \* Redis channel: per subscription, the payloads pushed to it
    stream,     \* per subscription: its state and what it has yielded (history)
    sent,       \* per producer: its broadcasts and the result of the last (history)
    calls,      \* per producer: its calls of broadcast and what it saw at the first (history)
    channel_types, \* local Engine.channel_types: event type and topic -> the bus created for them
    tguard,     \* the caller holding the Mutex of Engine.channel_types, 0 if free
    chan,       \* per caller: the channel handle it asked the engine for
    buses,      \* local: the buses created, in the order of their creation
    body,       \* Template.body, the string Template::text interpolates
    repl,       \* the replacements function given to Template::text
    text,       \* interpolate: the local text
    index,      \* interpolate: the local index
    tpc,        \* interpolate: not called, in its loop, returned or panicked
    replaced,   \* the keys of the tokens interpolate has replaced (history)
    secret,     \* the Secret<SIZE> at hand: SIZE and its key
    hex,        \* the string a Secret was converted into, or the one given to parse
    parsed,     \* what str::parse::<Secret<SIZE>> returned
    spc,        \* Secret: nothing done, converted into a String, or parsed
    bguard,     \* local: per bus, the caller holding the Mutex of the Bus, 0 if free
    bcall       \* per caller: its call of broadcast or listen in progress

\* The state of the engine's registry and of the handles' types, the
\* addresses used by Redis engines, and the failures of the transport.
caches == <<registry, guard, cname, vtype, raced, remote, poisoned, attempt, twin>>

\* The state of the channel of one topic.
channels == <<bus, pubsub, stream, sent>>

\* The calls in progress on the channel, the registry of the topics and
\* the templates.
topics == <<channel_types, tguard, chan, buses>>

templates == <<body, repl, text, index, tpc, replaced>>

\* The secrets of the session store.
secrets == <<secret, hex, parsed, spc>>

\* The locks of the buses.
locks == <<bguard, bcall>>

more == <<calls, topics, templates, secrets, locks>>

ext == <<caches, channels, more>>

vars == <<backend, now, data, mutex, db, handle, pc, req, tmp, res, ndone, nid, hist, ext>>

\* ------------------------------------------------------------------ values
None == [tag |-> "None"]
Some(v) == [tag |-> "Some", v |-> v]
Unit == [tag |-> "Unit"]
Err(kind) == [tag |-> "Err", kind |-> kind]

NoData == [value |-> <<>>, expiry |-> -1, id |-> 0]
NoReq == [op |-> "none", key |-> <<>>, value |-> <<>>, ttl |-> None, since |-> 0]
NoEvent == [op |-> "none", id |-> 0, value |-> <<>>, deadline |-> -1]
NoTmp == [d |-> NoData, at |-> 0]
NoRes == [op |-> "none", slot |-> <<>>, value |-> <<>>, ttl |-> None, ret |-> None,
          retId |-> 0, wrId |-> 0, before |-> NoData, after |-> NoData,
          prev |-> NoEvent, at |-> 0, wat |-> 0, since |-> 0, seq |-> 0]

\* ------------------------------------------------------------------- codec
\* cbor4ii::serde::to_vec of a string: the text-string header, then the bytes.
cbor(s) == <<96 + Len(s)>> \o s

\* A from_slice that takes the bytes after any header as the string.
uncbor_lenient(b) ==
    IF Len(b) >= 1
    THEN Some(Tail(b))
    ELSE Err("Encoding")

\* cbor4ii::serde::from_slice as a string.
uncbor(b) ==
    IF Len(b) >= 1 /\ b[1] = 96 + Len(b) - 1
    THEN Some(Tail(b))
    ELSE Err("Encoding")

\* local Cache::key_serialize
LocalKeySerialize(key) == cbor(key)

\* redis Cache::key_serialize: the handle's prefix, then the encoded key.
RedisKeySerialize(prefix, key) == prefix \o cbor(key)

\* redis CacheProducer::cache: format!("{}{}", self.prefix, name)
RedisPrefix(name) == Prefix \o name

\* cbor4ii::serde::to_vec of a Vec<u8> of small bytes: the array header, then
\* each byte as an unsigned integer.
cbor_seq(s) == <<128 + Len(s)>> \o s

\* cbor4ii::serde::from_slice as a Vec<u8>.
uncbor_seq(b) ==
    IF Len(b) >= 1 /\ b[1] = 128 + Len(b) - 1
    THEN Some(Tail(b))
    ELSE Err("Encoding")

\* The value types V of the handles: String and Vec<u8>.
Types == {"String", "Vec<u8>"}

\* Cache::value_serialize and Cache::value_deserialize of a Cache<K, V>.
value_serialize(ty, v) == IF ty = "String" THEN cbor(v) ELSE cbor_seq(v)
value_deserialize(ty, b) == IF ty = "String" THEN uncbor(b) ELSE uncbor_seq(b)

\* ttl.as_millis(): whole milliseconds, the rest is dropped.
as_millis(ttl) == ttl \div TicksPerMilli

\* The entry physically stored under key, NoData if there is none.
Stored(m, key) == IF key \in DOMAIN m THEN m[key] ELSE NoData

\* ------------------------------------------------------- the local Buffer
\* A liveness test that still counts the instant of expiry as live.
live_inclusive(d, t) == t <= d.expiry

\* A liveness test that compares whole milliseconds.
live_millis(d, t) == t \div TicksPerMilli < d.expiry \div TicksPerMilli

\* Data::live: the entry is live while the instant read is before its expiry.
live(d, t) == t < d.expiry

\* A get that goes through HashMap::entry(key).or_default(): a key without
\* an entry gets an empty one.
BufferGetOrDefault(buf, key, t) ==
    IF key \in DOMAIN buf
    THEN IF live(buf[key], t)
         THEN [d |-> buf[key], buf |-> buf]
         ELSE [d |-> NoData, buf |-> [x \in DOMAIN buf \ {key} |-> buf[x]]]
    ELSE [d |-> NoData,
          buf |-> [x \in DOMAIN buf \cup {key} |->
                     IF x = key THEN [value |-> <<>>, expiry |-> t, id |-> 0] ELSE buf[x]]]

\* A get that puts off the expiry of the live entry it reads.
BufferGetTouch(buf, key, t) ==
    IF key \in DOMAIN buf
    THEN IF live(buf[key], t)
         THEN [d |-> buf[key],
               buf |-> [buf EXCEPT ![key].expiry = buf[key].expiry + 1]]
         ELSE [d |-> NoData, buf |-> [x \in DOMAIN buf \ {key} |-> buf[x]]]
    ELSE [d |-> NoData, buf |-> buf]

\* Buffer::get: the live value under key; an expired entry is removed.
\* Returns the Data found (NoData for nothing) and the buffer afterwards.
BufferGet(buf, key, t) ==
    IF key \in DOMAIN buf
    THEN IF live(buf[key], t)
         THEN [d |-> buf[key], buf |-> buf]
         ELSE [d |-> NoData, buf |-> [x \in DOMAIN buf \ {key} |-> buf[x]]]
    ELSE [d |-> NoData, buf |-> buf]

\* A remove that returns the entry whether or not it is live.
BufferRemoveAny(buf, key, t) ==
    IF key \in DOMAIN buf
    THEN [d |-> buf[key], buf |-> [x \in DOMAIN buf \ {key} |-> buf[x]]]
    ELSE [d |-> NoData, buf |-> buf]

\* A remove that returns the live entry and leaves it in the map.
BufferRemoveKeep(buf, key, t) ==
    IF key \in DOMAIN buf /\ live(buf[key], t)
    THEN [d |-> buf[key], buf |-> buf]
    ELSE [d |-> NoData, buf |-> buf]

\* Buffer::remove: takes the entry out of the map, and returns it if live.
BufferRemove(buf, key, t) ==
    IF key \in DOMAIN buf
    THEN [d |-> IF live(buf[key], t) THEN buf[key] ELSE NoData,
          buf |-> [x \in DOMAIN buf \ {key} |-> buf[x]]]
    ELSE [d |-> NoData, buf |-> buf]

\* A put that leaves the new entry alone in the map.
BufferPutAlone(buf, key, value, expiry, id) ==
    [x \in {key} |-> [value |-> value, expiry |-> expiry, id |-> id]]

\* Buffer::put: HashMap::insert of Data::new(value, expiry).
BufferPut(buf, key, value, expiry, id) ==
    [x \in DOMAIN buf \cup {key} |->
        IF x = key THEN [value |-> value, expiry |-> expiry, id |-> id] ELSE buf[x]]

\* ------------------------------------------------------- the Redis server
\* A key whose expiry has been reached does not exist: the server deletes
\* it when a command touches it.
RedisExpire(d, key, t) ==
    IF key \in DOMAIN d /\ ~(t < d[key].expiry)
    THEN [x \in DOMAIN d \ {key} |-> d[x]]
    ELSE d

\* GET key
RedisGet(d, key, t) ==
    LET e == RedisExpire(d, key, t)
    IN  [reply |-> IF key \in DOMAIN e THEN e[key] ELSE NoData, err |-> FALSE, db |-> e]

\* GET sent where GETDEL is meant: the key stays.
RedisGetKeep(d, key, t) == RedisGet(d, key, t)

\* GETDEL key
RedisGetDel(d, key, t) ==
    LET e == RedisExpire(d, key, t)
    IN  [reply |-> IF key \in DOMAIN e THEN e[key] ELSE NoData, err |-> FALSE,
         db |-> [x \in DOMAIN e \ {key} |-> e[x]]]

\* SET key value PX px
RedisSetPx(d, key, value, px, t, id) ==
    LET e == RedisExpire(d, key, t)
    IN  IF px <= 0
        THEN [reply |-> NoData, err |-> TRUE, db |-> d]
        ELSE [reply |-> NoData, err |-> FALSE,
              db |-> [x \in DOMAIN e \cup {key} |->
                        IF x = key
                        THEN [value |-> value, expiry |-> t + px * TicksPerMilli, id |-> id]
                        ELSE e[x]]]

\* SET key value XX GET PX px
RedisSetXxGetPx(d, key, value, px, t, id) ==
    LET e == RedisExpire(d, key, t)
    IN  IF px <= 0
        THEN [reply |-> NoData, err |-> TRUE, db |-> d]
        ELSE IF key \in DOMAIN e
        THEN [reply |-> e[key], err |-> FALSE,
              db |-> [e EXCEPT ![key] =
                        [value |-> value, expiry |-> t + px * TicksPerMilli, id |-> id]]]
        ELSE [reply |-> NoData, err |-> FALSE, db |-> e]

\* SET key value NX GET KEEPTTL, NX for XX: an existing key is returned and
\* not written.
RedisSetNxGetKeepTtl(d, key, value, t, id) ==
    LET e == RedisExpire(d, key, t)
    IN  [reply |-> Stored(e, key), err |-> FALSE, db |-> e]

\* SET key value XX GET KEEPTTL
RedisSetXxGetKeepTtl(d, key, value, t, id) ==
    LET e == RedisExpire(d, key, t)
    IN  IF key \in DOMAIN e
        THEN [reply |-> e[key], err |-> FALSE,
              db |-> [e EXCEPT ![key] =
                        [value |-> value, expiry |-> e[key].expiry, id |-> id]]]
        ELSE [reply |-> NoData, err |-> FALSE, db |-> e]

\* ----------------------------------------------------------------- helpers
\* Where the caller's request is stored: the buffer and encoded key of the
\* local backend, the full key of the Redis one.
Slot(p) ==
    IF backend = "Local"
    THEN <<handle[p], LocalKeySerialize(req[p].key)>>
    ELSE RedisKeySerialize(RedisPrefix(handle[p]), req[p].key)

\* History: the last change made under a slot.
Ev(slot) == IF slot \in DOMAIN hist THEN hist[slot] ELSE NoEvent
SetHist(slot, e) == [x \in DOMAIN hist \cup {slot} |-> IF x = slot THEN e ELSE hist[x]]

InFlight == Cardinality({p \in Callers : pc[p] \in {"lock", "body", "replace_put", "send"}})

\* What a completed operation leaves behind for the caller.
\* before, after: the entry stored under the key before and after; prev: the
\* last change of the key before this operation's own; at: the instant at
\* which the operation read the entry; wat: the instant it returned.
Result(p, ret, retId, wrId, before, after, prev, at) ==
    [op |-> req[p].op, slot |-> Slot(p), value |-> req[p].value, ttl |-> req[p].ttl,
     ret |-> ret, retId |-> retId, wrId |-> wrId, before |-> before, after |-> after,
     prev |-> prev, at |-> at, wat |-> now, since |-> req[p].since, seq |-> ndone + 1]

\* The operation of caller p returns.
Return(p, r) ==
    /\ res' = [res EXCEPT ![p] = r]
    /\ pc' = [pc EXCEPT ![p] = "idle"]
    /\ req' = [req EXCEPT ![p] = NoReq]
    /\ tmp' = [tmp EXCEPT ![p] = NoTmp]
    /\ ndone' = ndone + 1

\* Option<Vec<u8>>::map(value_deserialize).transpose()
Decoded(ty, d) == IF d = NoData THEN None ELSE value_deserialize(ty, d.value)

\* ---------------------------------------------------------- initial state
\* The engine's registry is empty and unlocked; a handle is a
\* Cache<String, String> unless cache() is called with another V.
InitRegistry ==
    /\ registry = <<>>
    /\ guard = 0
    /\ cname = [p \in Callers |-> <<>>]
    /\ vtype = [p \in Callers |-> "String"]
    /\ raced = FALSE

\* The Redis engines, each with the prefix of its configuration; nothing
\* has been addressed.
Engines == {1, 2}
InitRemote ==
    remote = [e \in Engines |-> [prefix |-> Prefix, key |-> <<>>, channel |-> <<>>]]

\* No mutex is poisoned and no call has failed.
NoAttempt == [stage |-> "none", tries |-> 0, seq |-> 0]
InitFaults ==
    /\ poisoned = {}
    /\ attempt = [p \in Callers |-> NoAttempt]

\* Both stores of the twin are empty and no call has been made.
InitTwin ==
    twin = [buf |-> <<>>, db |-> <<>>, op |-> "none", ttl |-> None,
            local |-> None, redis |-> None, n |-> 0]

\* The subscriptions and the producers of the topic.
Subs == {1, 2}
Producers == {1, 2}

\* The topic's bus is empty and has no reader, nothing is subscribed, and
\* nothing has been broadcast.
NoStream == [state |-> "none", got |-> <<>>, due |-> <<>>, ends |-> 0, past |-> {}]
InitChannel ==
    /\ bus = [log |-> <<>>, head |-> [s \in Subs |-> -1]]
    /\ pubsub = [subscribed |-> {}, inbox |-> [s \in Subs |-> <<>>]]
    /\ stream = [s \in Subs |-> NoStream]
    /\ sent = [p \in Producers |-> [n |-> 0, ret |-> None, lost |-> {}]]

\* No producer has called broadcast.
InitCalls ==
    calls = [p \in Producers |-> [n |-> 0, seen |-> [q \in Producers |-> 0]]]

\* The engine's registry of channels is empty and unlocked, and no handle
\* has been asked for.
NoChannel == [pc |-> "new", ty |-> "String", topic |-> <<>>, id |-> <<>>, raced |-> FALSE]
InitTopics ==
    /\ channel_types = <<>>
    /\ tguard = 0
    /\ chan = [h \in Subs |-> NoChannel]
    /\ buses = <<>>

\* Template::text has not been called.
InitTemplate ==
    /\ body = <<>>
    /\ repl = <<>>
    /\ text = <<>>
    /\ index = 0
    /\ tpc = "new"
    /\ replaced = <<>>

\* No secret has been made or parsed.
InitSecret ==
    /\ secret = [SIZE |-> 0, key |-> <<>>]
    /\ hex = <<>>
    /\ parsed = None
    /\ spc = "new"

\* No bus is locked, and no broadcast or listen is in progress.
NoBusCall == [pc |-> "idle", op |-> "none"]
InitLocks ==
    /\ bguard = <<>>
    /\ bcall = [p \in Callers |-> NoBusCall]

InitMore == InitCalls /\ InitTopics /\ InitTemplate /\ InitSecret /\ InitLocks

InitExt == InitRegistry /\ InitRemote /\ InitFaults /\ InitTwin /\ InitChannel /\ InitMore

InitCache ==
    /\ backend \in {"Local", "Redis"}
    /\ now = 0
    /\ data = <<>>
    /\ mutex = <<>>
    /\ db = <<>>
    /\ handle = [p \in Callers |-> <<>>]
    /\ pc = [p \in Callers |-> "new"]
    /\ req = [p \in Callers |-> NoReq]
    /\ tmp = [p \in Callers |-> NoTmp]
    /\ res = [p \in Callers |-> NoRes]
    /\ ndone = 0
    /\ nid = 0
    /\ hist = <<>>

Init == InitCache /\ InitExt

\* Time passes.
Tick ==
    /\ now < MaxTime
    /\ now' = now + 1
    /\ UNCHANGED <<ext, backend, data, mutex, db, handle, pc, req, tmp, res, ndone, nid, hist>>

\* ------------------------------------------------------------ Engine::cache
\* local CacheProducer::cache: the buffer of the name, created if absent.
LocalEngineCache(p, name) ==
    /\ backend = "Local"
    /\ pc[p] = "new"
    /\ data' = [n \in DOMAIN data \cup {name} |-> IF n \in DOMAIN data THEN data[n] ELSE <<>>]
    /\ mutex' = [n \in DOMAIN mutex \cup {name} |-> IF n \in DOMAIN mutex THEN mutex[n] ELSE 0]
    /\ handle' = [handle EXCEPT ![p] = name]
    /\ pc' = [pc EXCEPT ![p] = "idle"]
    /\ UNCHANGED <<ext, backend, now, db, req, tmp, res, ndone, nid, hist>>

\* redis CacheProducer::cache: a handle holding the prefix and the pool.
RedisEngineCache(p, name) ==
    /\ backend = "Redis"
    /\ pc[p] = "new"
    /\ handle' = [handle EXCEPT ![p] = name]
    /\ pc' = [pc EXCEPT ![p] = "idle"]
    /\ UNCHANGED <<ext, backend, now, data, mutex, db, req, tmp, res, ndone, nid, hist>>

\* ------------------------------------------------------------------- calls
\* A caller calls an operation of its handle.  The local backend first
\* takes the buffer's lock, the Redis one sends its command.
Call(p, op, key, value, ttl) ==
    /\ pc[p] = "idle"
    /\ ndone + InFlight < MaxOps
    /\ req' = [req EXCEPT ![p] =
                 [op |-> op, key |-> key, value |-> value, ttl |-> ttl, since |-> ndone]]
    /\ pc' = [pc EXCEPT ![p] = IF backend = "Local" THEN "lock" ELSE "send"]
    /\ UNCHANGED <<ext, backend, now, data, mutex, db, handle, tmp, res, ndone, nid, hist>>

CallGet(p) == \E k \in Keys : Call(p, "get", k, <<>>, None)
CallPop(p) == \E k \in Keys : Call(p, "pop", k, <<>>, None)
CallPut(p) == \E k \in Keys, v \in Vals, t \in Ttls : Call(p, "put", k, v, Some(t))
CallReplace(p) ==
    \E k \in Keys, v \in Vals, t \in {None} \cup {Some(x) : x \in Ttls} :
        Call(p, "replace", k, v, t)

\* ------------------------------------------------------- the local backend
\* A lock that is granted whoever holds it.
lock_shared(m) == TRUE

\* Mutex::lock: granted when no caller holds the mutex.
lock(m) == m = 0

\* self.data.lock(): every operation of the local cache starts with it, and
\* holds the guard until it returns.  The lock of a poisoned mutex fails.
LocalLock(p) ==
    /\ backend = "Local"
    /\ pc[p] = "lock"
    /\ lock(mutex[handle[p]])
    /\ handle[p] \notin poisoned
    /\ mutex' = [mutex EXCEPT ![handle[p]] = p]
    /\ pc' = [pc EXCEPT ![p] = "body"]
    /\ UNCHANGED <<ext, backend, now, data, db, handle, req, tmp, res, ndone, nid, hist>>

\* A guard that is forgotten, not dropped: the mutex stays locked.
UnlockForget(p) == mutex' = mutex

\* The guard is dropped when the operation returns.
Unlock(p) == mutex' = [mutex EXCEPT ![handle[p]] = 0]

\* local Cache::get
LocalCacheGet(p) ==
    /\ backend = "Local"
    /\ pc[p] = "body"
    /\ req[p].op = "get"
    /\ LET name == handle[p]
           key == LocalKeySerialize(req[p].key)
           g == BufferGet(data[name], key, now)
       IN  /\ data' = [data EXCEPT ![name] = g.buf]
           /\ Return(p, Result(p, Decoded(vtype[p], g.d), g.d.id, 0, Stored(data[name], key),
                               Stored(g.buf, key), Ev(Slot(p)), now))
    /\ Unlock(p)
    /\ UNCHANGED <<ext, backend, now, db, handle, nid, hist>>

\* local Cache::pop
LocalCachePop(p) ==
    /\ backend = "Local"
    /\ pc[p] = "body"
    /\ req[p].op = "pop"
    /\ LET name == handle[p]
           key == LocalKeySerialize(req[p].key)
           r == BufferRemove(data[name], key, now)
       IN  /\ data' = [data EXCEPT ![name] = r.buf]
           /\ hist' = IF r.d = NoData THEN hist
                      ELSE SetHist(Slot(p), [op |-> "pop", id |-> r.d.id,
                                             value |-> <<>>, deadline |-> -1])
           /\ Return(p, Result(p, Decoded(vtype[p], r.d), r.d.id, 0, Stored(data[name], key),
                               Stored(r.buf, key), Ev(Slot(p)), now))
    /\ Unlock(p)
    /\ UNCHANGED <<ext, backend, now, db, handle, nid>>

\* local Cache::put
LocalCachePut(p) ==
    /\ backend = "Local"
    /\ pc[p] = "body"
    /\ req[p].op = "put"
    /\ LET name == handle[p]
           key == LocalKeySerialize(req[p].key)
           value == value_serialize(vtype[p], req[p].value)
           buf == BufferPut(data[name], key, value, now + req[p].ttl.v, nid + 1)
       IN  /\ data' = [data EXCEPT ![name] = buf]
           /\ nid' = nid + 1
           /\ hist' = SetHist(Slot(p), [op |-> "put", id |-> nid + 1,
                                        value |-> req[p].value,
                                        deadline |-> now + req[p].ttl.v])
           /\ Return(p, Result(p, Unit, 0, nid + 1, Stored(data[name], key),
                               Stored(buf, key), Ev(Slot(p)), now))
    /\ Unlock(p)
    /\ UNCHANGED <<ext, backend, now, db, handle>>

\* An expiry that falls back to the present instant, not to d.expiry.
replace_expiry_now(ttl, d, t) == IF ttl = None THEN t ELSE t + ttl.v

\* ttl.map(|ttl| Instant::now() + ttl).unwrap_or(d.expiry)
replace_expiry(ttl, d, t) == IF ttl = None THEN d.expiry ELSE t + ttl.v

\* local Cache::replace, up to data.remove(&key): the entry is taken out of
\* the buffer; without a live entry the operation returns None.
LocalCacheReplace(p) ==
    /\ backend = "Local"
    /\ pc[p] = "body"
    /\ req[p].op = "replace"
    /\ LET name == handle[p]
           key == LocalKeySerialize(req[p].key)
           r == BufferRemove(data[name], key, now)
       IN  /\ data' = [data EXCEPT ![name] = r.buf]
           /\ IF r.d = NoData
              THEN /\ Return(p, Result(p, None, 0, 0, Stored(data[name], key),
                                       Stored(r.buf, key), Ev(Slot(p)), now))
                   /\ Unlock(p)
              ELSE /\ tmp' = [tmp EXCEPT ![p] = [d |-> r.d, at |-> now]]
                   /\ pc' = [pc EXCEPT ![p] = "replace_put"]
                   /\ UNCHANGED <<ext, mutex, req, res, ndone>>
    /\ UNCHANGED <<ext, backend, now, db, handle, nid, hist>>

\* local Cache::replace, from data.put(..) on: the new value is written with
\* the new expiry, or with the expiry of the entry taken out, and the value
\* taken out is returned.
LocalCacheReplacePut(p) ==
    /\ backend = "Local"
    /\ pc[p] = "replace_put"
    /\ LET name == handle[p]
           key == LocalKeySerialize(req[p].key)
           value == value_serialize(vtype[p], req[p].value)
           d == tmp[p].d
           expiry == replace_expiry(req[p].ttl, d, now)
           buf == BufferPut(data[name], key, value, expiry, nid + 1)
           prev == Ev(Slot(p))
       IN  /\ data' = [data EXCEPT ![name] = buf]
           /\ nid' = nid + 1
           /\ hist' = SetHist(Slot(p), [op |-> "replace", id |-> nid + 1,
                                        value |-> req[p].value,
                                        deadline |-> IF req[p].ttl = None
                                                     THEN prev.deadline
                                                     ELSE now + req[p].ttl.v])
           /\ Return(p, Result(p, Decoded(vtype[p], d), d.id, nid + 1, d, Stored(buf, key), prev,
                               tmp[p].at))
    /\ Unlock(p)
    /\ UNCHANGED <<ext, backend, now, db, handle>>

\* ------------------------------------------------------- the Redis backend
\* The reply of a command as the operation returns it: an error reply is a
\* RedisError, which converts to Error::ValueAccess.
Reply(ty, r) == IF r.err THEN Err("ValueAccess") ELSE Decoded(ty, r.reply)

\* redis Cache::get
RedisCacheGet(p) ==
    /\ backend = "Redis"
    /\ pc[p] = "send"
    /\ req[p].op = "get"
    /\ LET key == RedisKeySerialize(RedisPrefix(handle[p]), req[p].key)
           r == RedisGet(db, key, now)
       IN  /\ db' = r.db
           /\ Return(p, Result(p, Reply(vtype[p], r), r.reply.id, 0, Stored(db, key),
                               Stored(r.db, key), Ev(key), now))
    /\ UNCHANGED <<ext, backend, now, data, mutex, handle, nid, hist>>

\* redis Cache::pop
RedisCachePop(p) ==
    /\ backend = "Redis"
    /\ pc[p] = "send"
    /\ req[p].op = "pop"
    /\ LET key == RedisKeySerialize(RedisPrefix(handle[p]), req[p].key)
           r == RedisGetDel(db, key, now)
       IN  /\ db' = r.db
           /\ hist' = IF r.reply = NoData THEN hist
                      ELSE SetHist(key, [op |-> "pop", id |-> r.reply.id,
                                         value |-> <<>>, deadline |-> -1])
           /\ Return(p, Result(p, Reply(vtype[p], r), r.reply.id, 0, Stored(db, key),
                               Stored(r.db, key), Ev(key), now))
    /\ UNCHANGED <<ext, backend, now, data, mutex, handle, nid>>

\* redis Cache::put
RedisCachePut(p) ==
    /\ backend = "Redis"
    /\ pc[p] = "send"
    /\ req[p].op = "put"
    /\ LET key == RedisKeySerialize(RedisPrefix(handle[p]), req[p].key)
           value == value_serialize(vtype[p], req[p].value)
           r == RedisSetPx(db, key, value, as_millis(req[p].ttl.v), now, nid + 1)
       IN  /\ db' = r.db
           /\ nid' = IF r.err THEN nid ELSE nid + 1
           /\ hist' = IF r.err THEN hist
                      ELSE SetHist(key, [op |-> "put", id |-> nid + 1,
                                         value |-> req[p].value,
                                         deadline |-> now + req[p].ttl.v])
           /\ Return(p, Result(p, IF r.err THEN Err("ValueAccess") ELSE Unit, 0,
                               IF r.err THEN 0 ELSE nid + 1, Stored(db, key),
                               Stored(r.db, key), Ev(key), now))
    /\ UNCHANGED <<ext, backend, now, data, mutex, handle>>

\* redis Cache::replace
RedisCacheReplace(p) ==
    /\ backend = "Redis"
    /\ pc[p] = "send"
    /\ req[p].op = "replace"
    /\ LET key == RedisKeySerialize(RedisPrefix(handle[p]), req[p].key)
           value == value_serialize(vtype[p], req[p].value)
           r == IF req[p].ttl = None
                THEN RedisSetXxGetKeepTtl(db, key, value, now, nid + 1)
                ELSE RedisSetXxGetPx(db, key, value, as_millis(req[p].ttl.v), now, nid + 1)
           wrote == ~r.err /\ r.reply # NoData
           prev == Ev(key)
       IN  /\ db' = r.db
           /\ nid' = IF wrote THEN nid + 1 ELSE nid
           /\ hist' = IF ~wrote THEN hist
                      ELSE SetHist(key, [op |-> "replace", id |-> nid + 1,
                                         value |-> req[p].value,
                                         deadline |-> IF req[p].ttl = None
                                                      THEN prev.deadline
                                                      ELSE now + req[p].ttl.v])
           /\ Return(p, Result(p, Reply(vtype[p], r), r.reply.id, IF wrote THEN nid + 1 ELSE 0,
                               Stored(db, key), Stored(r.db, key), prev, now))
    /\ UNCHANGED <<ext, backend, now, data, mutex, handle>>

\* ------------------------------------------------------------ specification
\* One caller: operations follow one another, over every argument.
Next ==
    \/ Tick
    \/ \E p \in Solo, name \in Names : LocalEngineCache(p, name)
    \/ \E p \in Solo, name \in Names : RedisEngineCache(p, name)
    \/ \E p \in Solo : CallGet(p)
    \/ \E p \in Solo : CallPop(p)
    \/ \E p \in Solo : CallPut(p)
    \/ \E p \in Solo : CallReplace(p)
    \/ \E p \in Solo : LocalLock(p)
    \/ \E p \in Solo : LocalCacheGet(p)
    \/ \E p \in Solo : LocalCachePop(p)
    \/ \E p \in Solo : LocalCachePut(p)
    \/ \E p \in Solo : LocalCacheReplace(p)
    \/ \E p \in Solo : LocalCacheReplacePut(p)
    \/ \E p \in Solo : RedisCacheGet(p)
    \/ \E p \in Solo : RedisCachePop(p)
    \/ \E p \in Solo : RedisCachePut(p)
    \/ \E p \in Solo : RedisCacheReplace(p)

Spec == Init /\ [][Next]_vars

\* Two callers whose operations overlap, over the arguments of a race: each
\* caller writes a value of its own, put with a ttl of one millisecond and
\* replace without one.
RaceVal(p) == <<4 + p>>
RacePut(p) == \E k \in Keys, t \in RaceTtls : Call(p, "put", k, RaceVal(p), Some(t))
RaceReplace(p) == \E k \in Keys : Call(p, "replace", k, RaceVal(p), None)

RaceTick ==
    /\ now < RaceTime
    /\ now' = now + 1
    /\ UNCHANGED <<ext, backend, data, mutex, db, handle, pc, req, tmp, res, ndone, nid, hist>>

NextRace ==
    \/ RaceTick
    \/ \E p \in Callers, name \in Names : LocalEngineCache(p, name)
    \/ \E p \in Callers, name \in Names : RedisEngineCache(p, name)
    \/ \E p \in Callers : CallGet(p)
    \/ \E p \in Callers : CallPop(p)
    \/ \E p \in Callers : RacePut(p)
    \/ \E p \in Callers : RaceReplace(p)
    \/ \E p \in Callers : LocalLock(p)
    \/ \E p \in Callers : LocalCacheGet(p)
    \/ \E p \in Callers : LocalCachePop(p)
    \/ \E p \in Callers : LocalCachePut(p)
    \/ \E p \in Callers : LocalCacheReplace(p)
    \/ \E p \in Callers : LocalCacheReplacePut(p)
    \/ \E p \in Callers : RedisCacheGet(p)
    \/ \E p \in Callers : RedisCachePop(p)
    \/ \E p \in Callers : RedisCachePut(p)
    \/ \E p \in Callers : RedisCacheReplace(p)

SpecRace == Init /\ [][NextRace]_vars

\* ------------------------------------------------------------------ claims
\* The operation of r found a live entry under its key.
HeldLive(r) == r.before # NoData /\ r.at < r.before.expiry

\* The operations of r and s overlapped: each was called before the other
\* returned.
Overlap(r, s) == r.since < s.seq /\ s.since < r.seq

\* C1: on either backend, a get(k) after a completed put(k, v, ttl), with no
\* change of k in between and before ttl has elapsed, returns Some(v).
C1_PutThenGet ==
    \A p \in Callers :
        (/\ res[p].op = "get"
         /\ res[p].prev.op = "put"
         /\ res[p].at < res[p].prev.deadline)
        => res[p].ret = Some(res[p].prev.value)

\* C2: a get, pop or replace never returns a value taken from an entry whose
\* expiry has passed: what it returns is the value of the last write of the
\* key, read before the instant that write set as its expiry; so once ttl has
\* elapsed since a put, get and pop return none.
C2_NeverReturnsExpired ==
    \A p \in Callers :
        (res[p].op \in {"get", "pop", "replace"} /\ res[p].ret.tag = "Some")
        => /\ res[p].prev.op \in {"put", "replace"}
           /\ res[p].at < res[p].prev.deadline
           /\ res[p].ret.v = res[p].prev.value

\* A pop, the third operation on a key whose put has expired, returns none.
C2_Witness ==
    \E p \in Callers :
        /\ res[p].op = "pop"
        /\ res[p].prev.op = "put"
        /\ res[p].at > res[p].prev.deadline
        /\ res[p].ret = None
        /\ res[p].seq = 3

\* C3: replace(k, v2, None) on a key holding a live entry (v1, expiry e)
\* returns Some(v1) and leaves v2 stored with the same expiry e.
C3_ReplaceKeepsExpiry ==
    \A p \in Callers :
        (res[p].op = "replace" /\ res[p].ttl = None /\ HeldLive(res[p]))
        => /\ res[p].ret = Some(res[p].prev.value)
           /\ value_deserialize(vtype[p], res[p].after.value) = Some(res[p].value)
           /\ res[p].after.expiry = res[p].before.expiry

\* A replace without ttl has put v2 where a live v1 was; time has passed
\* since the put of v1.
C3_Witness ==
    \E p \in Callers :
        /\ res[p].op = "replace" /\ res[p].ttl = None /\ HeldLive(res[p])
        /\ res[p].ret.tag = "Some"
        /\ res[p].ret.v # res[p].value
        /\ res[p].at > 0
        /\ res[p].at < res[p].after.expiry

\* C4: replace(k, v2, Some(ttl2)) on a key holding a live entry leaves v2
\* stored, expiring ttl2 after the time of the replace.
C4_ReplaceSetsExpiry ==
    \A p \in Callers :
        (/\ res[p].op = "replace" /\ res[p].ttl # None /\ HeldLive(res[p])
         /\ res[p].ret.tag # "Err")
        => /\ res[p].ret = Some(res[p].prev.value)
           /\ value_deserialize(vtype[p], res[p].after.value) = Some(res[p].value)
           /\ res[p].after.expiry >= res[p].at + res[p].ttl.v
           /\ res[p].after.expiry <= res[p].wat + res[p].ttl.v

\* C5: replace on a key with no entry, without ttl or with a ttl (positive),
\* returns none and writes nothing: the key is still absent.
C5_ReplaceAbsent ==
    \A p \in Callers :
        (/\ res[p].op = "replace" /\ res[p].before = NoData
         /\ res[p].ttl # None => res[p].ttl.v > 0)
        => /\ res[p].ret = None
           /\ res[p].after = NoData
           /\ res[p].wrId = 0

\* C6: replace(k, v2, None) on a key whose entry has expired returns none and
\* stores nothing: the entry is not revived.
C6_ReplaceExpired ==
    \A p \in Callers :
        (/\ res[p].op = "replace" /\ res[p].ttl = None
         /\ res[p].before # NoData /\ ~(res[p].at < res[p].before.expiry))
        => /\ res[p].ret = None
           /\ res[p].after = NoData
           /\ res[p].wrId = 0

\* A replace without ttl has found an entry past its expiry.
C6_Witness ==
    \E p \in Callers :
        /\ res[p].op = "replace" /\ res[p].ttl = None
        /\ res[p].before # NoData /\ res[p].at > res[p].before.expiry
        /\ res[p].ret = None

C8_PopIndivisible ==
    /\ \A p \in Callers :
          (res[p].op = "pop" /\ HeldLive(res[p]))
          => res[p].ret = Some(res[p].prev.value) /\ res[p].after = NoData
    /\ \A p, q \in Callers :
          (/\ p # q
           /\ res[p].op = "pop" /\ res[p].ret.tag = "Some"
           /\ res[q].op # "none" /\ res[q].slot = res[p].slot
           /\ res[q].retId = res[p].retId)
          => res[q].op = "get" /\ res[q].seq < res[p].seq

\* Two overlapping pops of one key: one returned the entry, the other none.
C8_Witness ==
    \E p, q \in Callers :
        /\ p # q
        /\ res[p].op = "pop" /\ res[q].op = "pop" /\ res[p].slot = res[q].slot
        /\ Overlap(res[p], res[q])
        /\ res[p].ret.tag = "Some"
        /\ res[q].ret = None
        /\ res[q].prev.op = "pop" /\ res[q].prev.id = res[p].retId

\* C9: two replace calls on the same key never return the same prior write;
\* of two that follow one another, the second returns the value the first
\* wrote.
C9_ReplaceRace ==
    \A p, q \in Callers :
        (/\ p # q
         /\ res[p].op = "replace" /\ res[q].op = "replace"
         /\ res[p].slot = res[q].slot
         /\ res[p].ret.tag = "Some" /\ res[q].ret.tag = "Some")
        => /\ res[p].retId # res[q].retId
           /\ res[q].wrId = res[p].wrId + 1
              => res[q].retId = res[p].wrId /\ res[q].ret = Some(res[p].value)

\* Two overlapping replaces of a key holding v1: one returned v1, the other
\* the value that one wrote.
C9_Witness ==
    \E p, q \in Callers :
        /\ p # q
        /\ res[p].op = "replace" /\ res[q].op = "replace"
        /\ res[p].slot = res[q].slot
        /\ Overlap(res[p], res[q])
        /\ res[p].prev.op = "put" /\ res[p].ret = Some(res[p].prev.value)
        /\ res[q].retId = res[p].wrId /\ res[q].ret = Some(res[p].value)
        /\ res[q].ret # res[p].ret

\* C10: replace is one check-and-set: the value it returns is the value of
\* the last write of the key before its own, the one its write overwrote, so
\* no put took effect between its check and its write.
C10_ReplaceAtomic ==
    \A p \in Callers :
        (res[p].op = "replace" /\ res[p].ret.tag = "Some")
        => /\ res[p].prev.op \in {"put", "replace"}
           /\ res[p].retId = res[p].prev.id
           /\ res[p].ret.v = res[p].prev.value
           /\ res[p].after.id = res[p].wrId

\* A replace that returned a value overlapped with a put of the same key by
\* the other caller.
C10_Witness ==
    \E p, q \in Callers :
        /\ p # q
        /\ res[p].op = "replace" /\ res[q].op = "put"
        /\ res[p].slot = res[q].slot
        /\ Overlap(res[p], res[q])
        /\ res[p].ret.tag = "Some"

\* ================================================================ names
\* Two callers ask one engine for caches by name, possibly at the same time,
\* and then use them one operation after another.  The names and keys are
\* chosen so that one name continues the other: "a" and "aa", with the keys
\* "" and "`" (the byte 96, which is also the CBOR header of "").

\* At most NameOps operations are called on named caches in one behaviour.
NameOps == 2

CacheNames == {<<97>>, <<97, 97>>}
CacheKeys == {<<>>, <<96>>}

\* The name of the cache behind the handle of caller p.
NameOf(p) == IF backend = "Local" THEN cname[p] ELSE handle[p]
HasHandle(p) == pc[p] \notin {"new", "registry", "entry"}

\* HashMap::insert: the name is bound to the new buffer, also when it had one.
insert_always(reg, name, id) ==
    [n \in DOMAIN reg \cup {name} |-> IF n = name THEN id ELSE reg[n]]

\* HashMap::entry(name).or_insert_with(..): the buffer the name has, or the
\* new one when it has none.
or_insert_with(reg, name, id) ==
    IF name \in DOMAIN reg
    THEN reg
    ELSE [n \in DOMAIN reg \cup {name} |-> IF n = name THEN id ELSE reg[n]]

\* local CacheProducer::cache is called: the caller waits for the lock of
\* the engine's registry.
LocalCacheCall(p, name, ty) ==
    /\ backend = "Local"
    /\ pc[p] = "new"
    /\ cname' = [cname EXCEPT ![p] = name]
    /\ vtype' = [vtype EXCEPT ![p] = ty]
    /\ pc' = [pc EXCEPT ![p] = "registry"]
    /\ raced' = (raced \/ \E q \in Callers \ {p} : pc[q] \in {"registry", "entry"})
    /\ UNCHANGED <<backend, now, data, mutex, db, handle, req, tmp, res, ndone, nid, hist,
                   registry, guard, remote, poisoned, attempt, twin, channels, more>>

\* self.data.lock() of the engine
LocalRegistryLock(p) ==
    /\ backend = "Local"
    /\ pc[p] = "registry"
    /\ lock(guard)
    /\ guard' = p
    /\ pc' = [pc EXCEPT ![p] = "entry"]
    /\ UNCHANGED <<backend, now, data, mutex, db, handle, req, tmp, res, ndone, nid, hist,
                   registry, cname, vtype, raced, remote, poisoned, attempt, twin, channels, more>>

\* data.entry(name).or_insert_with(|| Arc::new(Mutex::new(Buffer::new()))),
\* Arc::clone of the buffer into the new handle; the guard is dropped.
LocalRegistryEntry(p) ==
    /\ backend = "Local"
    /\ pc[p] = "entry"
    /\ LET id == Cardinality(DOMAIN data) + 1
           reg == or_insert_with(registry, cname[p], id)
           made == reg[cname[p]] = id
       IN  /\ registry' = reg
           /\ data' = IF made THEN [b \in DOMAIN data \cup {id} |->
                                       IF b = id THEN <<>> ELSE data[b]]
                      ELSE data
           /\ mutex' = IF made THEN [b \in DOMAIN mutex \cup {id} |->
                                        IF b = id THEN 0 ELSE mutex[b]]
                       ELSE mutex
           /\ handle' = [handle EXCEPT ![p] = reg[cname[p]]]
    /\ guard' = 0
    /\ pc' = [pc EXCEPT ![p] = "idle"]
    /\ UNCHANGED <<backend, now, db, req, tmp, res, ndone, nid, hist, cname, vtype, raced,
                   remote, poisoned, attempt, twin, channels, more>>

\* redis CacheProducer::cache::<K, V>: a handle holding the prefix and the
\* pool.
RedisCacheCall(p, name, ty) ==
    /\ backend = "Redis"
    /\ pc[p] = "new"
    /\ handle' = [handle EXCEPT ![p] = name]
    /\ vtype' = [vtype EXCEPT ![p] = ty]
    /\ pc' = [pc EXCEPT ![p] = "idle"]
    /\ UNCHANGED <<backend, now, data, mutex, db, req, tmp, res, ndone, nid, hist,
                   registry, guard, cname, raced, remote, poisoned, attempt, twin, channels, more>>

\* The operations on named caches: called when no other is in progress.
NamedCall(p, op, value, ttls) ==
    /\ InFlight = 0
    /\ ndone < NameOps
    /\ \E k \in CacheKeys, ttl \in ttls : Call(p, op, k, value, ttl)

\* A put lasts one millisecond, and no time passes.
NamedGet(p) == NamedCall(p, "get", <<>>, {None})
NamedPop(p) == NamedCall(p, "pop", <<>>, {None})
NamedPut(p) == NamedCall(p, "put", RaceVal(p), {Some(t) : t \in RaceTtls})
NamedReplace(p) == NamedCall(p, "replace", RaceVal(p), {None})

NextNames ==
    \/ \E p \in Callers, name \in CacheNames : LocalCacheCall(p, name, "String")
    \/ \E p \in Callers : LocalRegistryLock(p)
    \/ \E p \in Callers : LocalRegistryEntry(p)
    \/ \E p \in Callers, name \in CacheNames : RedisCacheCall(p, name, "String")
    \/ \E p \in Callers : NamedGet(p)
    \/ \E p \in Callers : NamedPop(p)
    \/ \E p \in Callers : NamedPut(p)
    \/ \E p \in Callers : NamedReplace(p)
    \/ \E p \in Callers : LocalLock(p)
    \/ \E p \in Callers : LocalCacheGet(p)
    \/ \E p \in Callers : LocalCachePop(p)
    \/ \E p \in Callers : LocalCachePut(p)
    \/ \E p \in Callers : LocalCacheReplace(p)
    \/ \E p \in Callers : LocalCacheReplacePut(p)
    \/ \E p \in Callers : RedisCacheGet(p)
    \/ \E p \in Callers : RedisCachePop(p)
    \/ \E p \in Callers : RedisCachePut(p)
    \/ \E p \in Callers : RedisCacheReplace(p)

SpecNames == Init /\ [][NextNames]_vars

\* The encoded key of the operation of r.
KeyOf(r) == IF backend = "Local" THEN r.slot[2] ELSE r.slot

\* What get(k) through the handle of caller q would return now.
WouldGet(q, k) ==
    IF backend = "Local"
    THEN Decoded(vtype[q], BufferGet(data[handle[q]], LocalKeySerialize(k), now).d)
    ELSE Reply(vtype[q], RedisGet(db, RedisKeySerialize(RedisPrefix(handle[q]), k), now))

\* C11: two handles obtained from one engine under the same name, also when
\* requested at the same time for a new name, share one namespace: they are
\* backed by the same buffer, no name ever has a second buffer, and a get
\* through one handle that follows a put through the other returns the value
\* put.
C11_SharedNamespace ==
    /\ Cardinality(DOMAIN data) <= Cardinality(DOMAIN registry)
    /\ \A p, q \in Callers :
          (p # q /\ HasHandle(p) /\ HasHandle(q) /\ NameOf(p) = NameOf(q))
          => /\ handle[p] = handle[q]
             /\ (/\ res[q].op = "put" /\ res[q].ret = Unit
                 /\ res[p].op = "get" /\ res[p].since = res[q].seq
                 /\ KeyOf(res[p]) = KeyOf(res[q]))
                => res[p].ret = Some(res[q].value)

\* Both callers asked for the same new name of the local engine at the same
\* time; then one put a value and the other got it.
C11_Witness ==
    \E p, q \in Callers :
        /\ p # q /\ backend = "Local" /\ raced
        /\ HasHandle(p) /\ HasHandle(q) /\ NameOf(p) = NameOf(q)
        /\ res[q].op = "put" /\ res[p].op = "get" /\ res[p].since = res[q].seq
        /\ res[p].ret = Some(res[q].value)

\* C12: within one engine, no step of a put, pop or replace through a handle
\* for one name changes what a get through a handle for another name returns,
\* whatever the key.
C12_DistinctNames ==
    [][\A p, q \in Callers :
          (/\ HasHandle(p) /\ HasHandle(q) /\ NameOf(p) # NameOf(q)
           /\ pc[p] \in {"body", "replace_put", "send"} /\ pc'[p] # pc[p]
           /\ req[p].op \in {"put", "pop", "replace"})
          => \A k \in CacheKeys : WouldGet(q, k)' = WouldGet(q, k)]_vars

\* ============================================================= prefixes
\* Two Redis engines, each configured with a prefix, address stored keys and
\* publish channels.  The prefixes, names and topics are chosen so that one
\* prefix continues the other: "t" and "ta", with the names "n" and "an".
Prefixes == {<<116>>, <<116, 97>>}
PrefixNames == {<<110>>, <<97, 110>>}

\* format!("{}{}", self.prefix, name): the prefix, then the name or topic.
format_prefix(prefix, name) == prefix \o name

\* The cache state that the addresses do not depend on.
cache == <<backend, now, data, mutex, db, handle, pc, req, tmp, res, ndone, nid, hist>>

InitPrefixes ==
    /\ InitCache
    /\ backend = "Redis"
    /\ InitRegistry
    /\ InitFaults
    /\ InitTwin
    /\ InitChannel
    /\ InitMore
    /\ remote \in [Engines -> {[prefix |-> x, key |-> <<>>, channel |-> <<>>] : x \in Prefixes}]

\* engine.cache(name), then an operation on key: the key the handle sends to
\* the store.
RemoteCacheKey(e, name, key) ==
    /\ remote' = [remote EXCEPT ![e].key =
                     RedisKeySerialize(format_prefix(remote[e].prefix, name), key)]
    /\ UNCHANGED <<cache, registry, guard, cname, vtype, raced, poisoned, attempt, twin, channels, more>>

\* engine.channel(topic): the channel the handle publishes and subscribes to.
RemoteChannel(e, topic) ==
    /\ remote' = [remote EXCEPT ![e].channel = format_prefix(remote[e].prefix, topic)]
    /\ UNCHANGED <<cache, registry, guard, cname, vtype, raced, poisoned, attempt, twin, channels, more>>

NextPrefixes ==
    \/ \E e \in Engines, name \in PrefixNames, key \in CacheKeys : RemoteCacheKey(e, name, key)
    \/ \E e \in Engines, topic \in PrefixNames : RemoteChannel(e, topic)

SpecPrefixes == InitPrefixes /\ [][NextPrefixes]_vars

\* C13: two Redis engines configured with different prefixes never address
\* the same stored key nor the same publish channel, whatever the names,
\* topics and keys.
C13_PrefixesNeverCollide ==
    \A e, f \in Engines :
        remote[e].prefix # remote[f].prefix
        => /\ (remote[e].key # <<>> => remote[e].key # remote[f].key)
           /\ (remote[e].channel # <<>> => remote[e].channel # remote[f].channel)

\* ================================================================ types
\* Two callers hold handles of one cache with value types of their own,
\* Cache<String, String> and Cache<String, Vec<u8>>, and use them one
\* operation after another while time passes: what one wrote, the other may
\* be unable to decode.

\* The ttl given to replace: half a millisecond, one millisecond.
TypeTtls == {1, 2}

TypedCall(p, op, value, ttls) ==
    /\ InFlight = 0
    /\ ndone < NameOps
    /\ \E k \in Keys, ttl \in ttls : Call(p, op, k, value, ttl)

TypedGet(p) == TypedCall(p, "get", <<>>, {None})
TypedPop(p) == TypedCall(p, "pop", <<>>, {None})
TypedPut(p) == TypedCall(p, "put", RaceVal(p), {Some(t) : t \in RaceTtls})
TypedReplace(p) == TypedCall(p, "replace", RaceVal(p), {None} \cup {Some(t) : t \in TypeTtls})

\* The steps of the typed handles.
TypedOps ==
    \/ \E p \in Callers, name \in Names, ty \in Types : LocalCacheCall(p, name, ty)
    \/ \E p \in Callers : LocalRegistryLock(p)
    \/ \E p \in Callers : LocalRegistryEntry(p)
    \/ \E p \in Callers, name \in Names, ty \in Types : RedisCacheCall(p, name, ty)
    \/ \E p \in Callers : TypedGet(p)
    \/ \E p \in Callers : TypedPop(p)
    \/ \E p \in Callers : TypedPut(p)
    \/ \E p \in Callers : TypedReplace(p)
    \/ \E p \in Callers : LocalLock(p)
    \/ \E p \in Callers : LocalCacheGet(p)
    \/ \E p \in Callers : LocalCachePop(p)
    \/ \E p \in Callers : LocalCachePut(p)
    \/ \E p \in Callers : LocalCacheReplace(p)
    \/ \E p \in Callers : LocalCacheReplacePut(p)
    \/ \E p \in Callers : RedisCacheGet(p)
    \/ \E p \in Callers : RedisCachePop(p)
    \/ \E p \in Callers : RedisCachePut(p)
    \/ \E p \in Callers : RedisCacheReplace(p)

NextTypes ==
    \/ RaceTick
    \/ TypedOps

SpecTypes == Init /\ [][NextTypes]_vars

\* The entry the operation of caller p found is live and its bytes do not
\* decode as the value type of p's handle.
HeldCorrupt(p) ==
    /\ HeldLive(res[p])
    /\ value_deserialize(vtype[p], res[p].before.value).tag = "Err"

\* C14: a get, pop or replace that finds a live entry whose bytes do not
\* decode as the handle's value type returns an Encoding error, never
\* Ok(None); and Ok(None) is returned only when no live entry exists.
C14_CorruptionIsNotAbsence ==
    \A p \in Callers :
        res[p].op \in {"get", "pop", "replace"}
        => /\ HeldCorrupt(p) => res[p].ret = Err("Encoding")
           /\ res[p].ret = None => ~HeldLive(res[p])

\* C15: an operation that returns an error has no partial effect: the entry
\* under its key is exactly as it was before the call.
C15_NoPartialEffect ==
    \A p \in Callers :
        (res[p].op # "none" /\ res[p].ret.tag = "Err")
        => res[p].after = res[p].before

\* ============================================================== failures
\* The calls of the typed handles, with the failures of what they rest on: a
\* poisoned mutex, a pool that cannot give a connection, a command that the
\* network fails.

\* From<PoisonError<T>> for Error, as if it were a failure to connect.
FromPoisonErrorConnection == Err("Connection")

\* From<PoisonError<T>> for Error
FromPoisonError == Err("ValueAccess")

\* From<PoolError<E>> for Error, as if it were a failure to access a value.
FromPoolErrorValueAccess == Err("ValueAccess")

\* From<PoolError<E>> for Error
FromPoolError == Err("Connection")

\* From<RedisError> for Error
FromRedisError == Err("ValueAccess")

\* The call of caller p fails at stage and returns error: nothing stored has
\* changed, and the call made one attempt.
Failed(p, stage, error, before) ==
    /\ attempt' = [attempt EXCEPT ![p] = [stage |-> stage, tries |-> 1, seq |-> ndone + 1]]
    /\ Return(p, Result(p, error, 0, 0, before, before, Ev(Slot(p)), now))

\* A thread panics while it holds the guard of a buffer (Instant::now() + ttl
\* overflows for a ttl near Duration::MAX): the guard is dropped by the
\* unwinding, the mutex is poisoned, and the call never returns.
LocalPanic(p) ==
    /\ backend = "Local"
    /\ pc[p] = "body"
    /\ req[p].op = "put"
    /\ poisoned' = poisoned \cup {handle[p]}
    /\ mutex' = [mutex EXCEPT ![handle[p]] = 0]
    /\ pc' = [pc EXCEPT ![p] = "panicked"]
    /\ UNCHANGED <<backend, now, data, db, handle, req, tmp, res, ndone, nid, hist,
                   registry, guard, cname, vtype, raced, remote, attempt, twin, channels, more>>

\* self.data.lock()? on a poisoned mutex: the PoisonError is returned.
LocalLockFailed(p) ==
    /\ backend = "Local"
    /\ pc[p] = "lock"
    /\ lock(mutex[handle[p]])
    /\ handle[p] \in poisoned
    /\ Failed(p, "lock", FromPoisonError,
              Stored(data[handle[p]], LocalKeySerialize(req[p].key)))
    /\ UNCHANGED <<backend, now, data, mutex, db, handle, nid, hist,
                   registry, guard, cname, vtype, raced, remote, poisoned, twin, channels, more>>

\* self.connection().await?: the pool has no connection to give.
RedisConnectionFailed(p) ==
    /\ backend = "Redis"
    /\ pc[p] = "send"
    /\ Failed(p, "pool", FromPoolError,
              Stored(db, RedisKeySerialize(RedisPrefix(handle[p]), req[p].key)))
    /\ UNCHANGED <<backend, now, data, mutex, db, handle, nid, hist,
                   registry, guard, cname, vtype, raced, remote, poisoned, twin, channels, more>>

\* conn.get(..).await? and the other commands: the network fails before the
\* command reaches the server.
RedisCommandFailed(p) ==
    /\ backend = "Redis"
    /\ pc[p] = "send"
    /\ Failed(p, "command", FromRedisError,
              Stored(db, RedisKeySerialize(RedisPrefix(handle[p]), req[p].key)))
    /\ UNCHANGED <<backend, now, data, mutex, db, handle, nid, hist,
                   registry, guard, cname, vtype, raced, remote, poisoned, twin, channels, more>>

\* No time passes.
NextFailures ==
    \/ TypedOps
    \/ \E p \in Callers : LocalPanic(p)
    \/ \E p \in Callers : LocalLockFailed(p)
    \/ \E p \in Callers : RedisConnectionFailed(p)
    \/ \E p \in Callers : RedisCommandFailed(p)

SpecFailures == Init /\ [][NextFailures]_vars

\* The last call of caller p returned an error from the failure recorded.
FailedAt(p, stage) ==
    /\ res[p].ret.tag = "Err"
    /\ attempt[p].seq = res[p].seq
    /\ attempt[p].stage = stage

\* The last call of caller p returned an error that no failure of the
\* transport caused.
FailedInCall(p) ==
    /\ res[p].ret.tag = "Err"
    /\ attempt[p].seq # res[p].seq

\* The Redis server rejected the expire time of the call of caller p.
Rejected(p) ==
    /\ backend = "Redis"
    /\ res[p].op \in {"put", "replace"}
    /\ res[p].ttl # None
    /\ as_millis(res[p].ttl.v) <= 0

\* C16 as claimed: a failure to acquire the local lock or a remote connection
\* returns a ValueAccess error, a codec failure an Encoding error, a network
\* failure during a command a Connection error; the failed call made one
\* attempt.
C16_Classification ==
    \A p \in Callers :
        /\ FailedAt(p, "lock") => res[p].ret = Err("ValueAccess")
        /\ FailedAt(p, "pool") => res[p].ret = Err("ValueAccess")
        /\ FailedAt(p, "command") => res[p].ret = Err("Connection")
        /\ (FailedInCall(p) /\ HeldCorrupt(p) /\ ~Rejected(p)) => res[p].ret = Err("Encoding")
        /\ (res[p].ret.tag = "Err" /\ attempt[p].seq = res[p].seq)
           => attempt[p].tries = 1

\* C16 as the code has it: a failure to acquire the local lock returns a
\* ValueAccess error, a failure to acquire a remote connection a Connection
\* error, a failure of a remote command (the network failing, or the server
\* rejecting it) a ValueAccess error, a codec failure an Encoding error, and
\* nothing else fails; the failed call made one attempt and changed nothing
\* stored.
C16_ClassificationAsCoded ==
    \A p \in Callers :
        /\ FailedAt(p, "lock") => res[p].ret = Err("ValueAccess")
        /\ FailedAt(p, "pool") => res[p].ret = Err("Connection")
        /\ FailedAt(p, "command") => res[p].ret = Err("ValueAccess")
        /\ FailedInCall(p)
           => \/ Rejected(p) /\ res[p].ret = Err("ValueAccess")
              \/ HeldCorrupt(p) /\ res[p].ret = Err("Encoding")
        /\ (res[p].ret.tag = "Err" /\ attempt[p].seq = res[p].seq)
           => /\ attempt[p].tries = 1
              /\ res[p].after = res[p].before

\* One caller's call failed for want of a connection, and the call the other
\* caller made after it returned without error.
C16_Witness ==
    \E p, q \in Callers :
        /\ backend = "Redis"
        /\ FailedAt(p, "pool") /\ res[p].ret = Err("Connection")
        /\ res[q].op = "put" /\ res[q].ret = Unit
        /\ res[q].seq > res[p].seq

\* ========================================================== absent keys
\* Nothing is stored under the key of the operation caller p has called.
Absent(p) ==
    IF backend = "Local"
    THEN Stored(data[handle[p]], LocalKeySerialize(req[p].key)) = NoData
    ELSE Stored(db, RedisKeySerialize(RedisPrefix(handle[p]), req[p].key)) = NoData

\* C17: a get or a pop of a key that has no entry, never written or removed,
\* returns Ok(None) and leaves the whole cache as it was.
C17_AbsentUnchanged ==
    [][\A p \in Callers :
          (/\ pc[p] \in {"body", "send"} /\ pc'[p] = "idle"
           /\ req[p].op \in {"get", "pop"}
           /\ Absent(p))
          => /\ res'[p].ret = None
             /\ data' = data
             /\ db' = db]_vars

\* A pop of a key that a pop had removed returned none.
C17_Witness ==
    \E p \in Callers :
        /\ res[p].op = "pop"
        /\ res[p].prev.op = "pop" /\ res[p].prev.id > 0
        /\ res[p].before = NoData
        /\ res[p].ret = None
        /\ res[p].after = NoData

\* ================================================================= twins
\* One local cache and one Redis cache are given the same calls, with the
\* same arguments, at the same instants; each keeps its own store.

\* local Cache::get, pop, put and replace as one step each, on the buffer
\* buf at instant t: the value returned and the buffer afterwards.
LocalOp(buf, op, k, v, ttl, t, id) ==
    LET key == LocalKeySerialize(k)
        value == value_serialize("String", v)
        g == BufferGet(buf, key, t)
        r == BufferRemove(buf, key, t)
    IN  CASE op = "get" -> [ret |-> Decoded("String", g.d), buf |-> g.buf]
          [] op = "pop" -> [ret |-> Decoded("String", r.d), buf |-> r.buf]
          [] op = "put" -> [ret |-> Unit, buf |-> BufferPut(buf, key, value, t + ttl.v, id)]
          [] op = "replace" ->
                IF r.d = NoData
                THEN [ret |-> None, buf |-> r.buf]
                ELSE [ret |-> Decoded("String", r.d),
                      buf |-> BufferPut(r.buf, key, value, replace_expiry(ttl, r.d, t), id)]

\* redis Cache::get, pop, put and replace on the keyspace d at instant t:
\* the value returned and the keyspace afterwards.
RedisOp(d, op, k, v, ttl, t, id) ==
    LET key == RedisKeySerialize(RedisPrefix(CHOOSE name \in Names : TRUE), k)
        value == value_serialize("String", v)
        r == CASE op = "get" -> RedisGet(d, key, t)
               [] op = "pop" -> RedisGetDel(d, key, t)
               [] op = "put" -> RedisSetPx(d, key, value, as_millis(ttl.v), t, id)
               [] op = "replace" ->
                     IF ttl = None
                     THEN RedisSetXxGetKeepTtl(d, key, value, t, id)
                     ELSE RedisSetXxGetPx(d, key, value, as_millis(ttl.v), t, id)
    IN  [ret |-> IF op = "put" /\ ~r.err THEN Unit ELSE Reply("String", r), db |-> r.db]

\* The same call is made on both caches.
TwinCall(op, k, v, ttl) ==
    /\ twin.n < NameOps
    /\ LET l == LocalOp(twin.buf, op, k, v, ttl, now, twin.n + 1)
           r == RedisOp(twin.db, op, k, v, ttl, now, twin.n + 1)
       IN  twin' = [buf |-> l.buf, db |-> r.db, op |-> op, ttl |-> ttl,
                    local |-> l.ret, redis |-> r.ret, n |-> twin.n + 1]
    /\ UNCHANGED <<cache, registry, guard, cname, vtype, raced, remote, poisoned, attempt,
                   channels, more>>

TwinGet == \E k \in Keys : TwinCall("get", k, <<>>, None)
TwinPop == \E k \in Keys : TwinCall("pop", k, <<>>, None)
TwinPut == \E k \in Keys, v \in Vals, t \in Ttls : TwinCall("put", k, v, Some(t))
TwinReplace ==
    \E k \in Keys, v \in Vals, t \in {None} \cup {Some(x) : x \in Ttls} :
        TwinCall("replace", k, v, t)

NextTwins ==
    \/ RaceTick
    \/ TwinGet
    \/ TwinPop
    \/ TwinPut
    \/ TwinReplace

SpecTwins == Init /\ [][NextTwins]_vars

\* C18: given the same calls with the same arguments at the same instants,
\* the local and the Redis cache return the same results.
C18_BackendsAgree == twin.local = twin.redis

\* ============================================================== channels
\* The channel of one topic: producers broadcast events of type String, and
\* subscriptions created by listen() yield them when polled.  The local
\* channel is a Bus shared by its readers under a Mutex; the Redis channel
\* is PUBLISH and SUBSCRIBE, the server pushing each payload to every
\* connection subscribed.  Bus and server are modelled by their documented
\* behaviour.

\* Configuration::queue_size of the local channel.
QueueSize == 2
\* At most MaxEvents events are broadcast in one behaviour.
MaxEvents == 3

\* The n-th event of producer p.
Event(p, n) == <<10 * p + n>>

\* The events of the items a stream has yielded.
Values(items) == [i \in 1..Len(items) |-> items[i].v]

\* An add_rx whose reader starts at the oldest event of the bus.
add_rx_replay(b, s) == [b EXCEPT !.head[s] = 0]

\* Bus::add_rx: a reader that starts after the events broadcast so far.
add_rx(b, s) == [b EXCEPT !.head[s] = Len(b.log)]

\* The events of the bus that reader s has not read.
Unread(b, s) == SubSeq(b.log, b.head[s] + 1, Len(b.log))

\* A try_broadcast that puts the event before the latest one of the bus.
try_broadcast_before(b, e) ==
    IF \E s \in Subs : b.head[s] >= 0 /\ Len(b.log) - b.head[s] >= QueueSize
    THEN [ok |-> FALSE, bus |-> b]
    ELSE [ok |-> TRUE,
          bus |-> [b EXCEPT !.log =
                      IF @ = <<>> THEN <<e>>
                      ELSE SubSeq(@, 1, Len(@) - 1) \o <<e, @[Len(@)]>>]]

\* A try_broadcast that, when a reader's queue is full, drops that reader's
\* oldest event to make room and succeeds.
try_broadcast_lossy(b, e) ==
    [ok |-> TRUE,
     bus |-> [log |-> Append(b.log, e),
              head |-> [s \in Subs |->
                           IF b.head[s] >= 0 /\ Len(b.log) - b.head[s] >= QueueSize
                           THEN b.head[s] + 1
                           ELSE b.head[s]]]]

\* A try_broadcast that reports a full queue and queues the event all the
\* same.
try_broadcast_partial(b, e) ==
    IF \E s \in Subs : b.head[s] >= 0 /\ Len(b.log) - b.head[s] >= QueueSize
    THEN [ok |-> FALSE, bus |-> [b EXCEPT !.log = Append(@, e)]]
    ELSE [ok |-> TRUE, bus |-> [b EXCEPT !.log = Append(@, e)]]

\* A try_broadcast for which the events of a bus without readers stay
\* unread and fill the queue.
try_broadcast_unread(b, e) ==
    IF \/ \E s \in Subs : b.head[s] >= 0 /\ Len(b.log) - b.head[s] >= QueueSize
       \/ (\A s \in Subs : b.head[s] < 0) /\ Len(b.log) >= QueueSize
    THEN [ok |-> FALSE, bus |-> b]
    ELSE [ok |-> TRUE, bus |-> [b EXCEPT !.log = Append(@, e)]]

\* Bus::try_broadcast: the event is appended for every reader, unless some
\* reader still has queue_size events to read.
try_broadcast(b, e) ==
    IF \E s \in Subs : b.head[s] >= 0 /\ Len(b.log) - b.head[s] >= QueueSize
    THEN [ok |-> FALSE, bus |-> b]
    ELSE [ok |-> TRUE, bus |-> [b EXCEPT !.log = Append(@, e)]]

\* A try_recv that returns the next event and leaves it to be read again.
try_recv_peek(b, s) ==
    IF b.head[s] < Len(b.log)
    THEN [item |-> Some(b.log[b.head[s] + 1]), bus |-> b]
    ELSE [item |-> None, bus |-> b]

\* BusReader::try_recv: the next event of the reader, if it has one.
try_recv(b, s) ==
    IF b.head[s] < Len(b.log)
    THEN [item |-> Some(b.log[b.head[s] + 1]), bus |-> [b EXCEPT !.head[s] = @ + 1]]
    ELSE [item |-> None, bus |-> b]

\* SUBSCRIBE channel
subscribe(ps, s) == [ps EXCEPT !.subscribed = @ \cup {s}]

\* A PUBLISH that hands the payload to one of the subscribed connections.
publish_one(ps, payload) ==
    [ps EXCEPT !.inbox =
        [s \in Subs |-> IF s \in ps.subscribed /\ \A t \in ps.subscribed : s <= t
                        THEN Append(ps.inbox[s], payload)
                        ELSE ps.inbox[s]]]

\* PUBLISH channel payload: the server pushes the payload to every
\* connection subscribed to the channel.
publish(ps, payload) ==
    [ps EXCEPT !.inbox =
        [s \in Subs |-> IF s \in ps.subscribed
                        THEN Append(ps.inbox[s], payload)
                        ELSE ps.inbox[s]]]

\* The number of broadcasts made.
Broadcasts == sent[1].n + sent[2].n

\* The events whose broadcast has returned.
AllSent == UNION {{Event(p, n) : n \in 1..sent[p].n} : p \in Producers}

\* local Channel::listen: bus.add_rx() under the lock of the bus.
LocalListen(s) ==
    /\ backend = "Local"
    /\ stream[s].state = "none"
    /\ bus' = add_rx(bus, s)
    /\ stream' = [stream EXCEPT ![s].state = "active", ![s].past = AllSent]
    /\ UNCHANGED <<cache, caches, more, pubsub, sent>>

\* local Channel::broadcast: bus.try_broadcast(event) under the lock of the
\* bus; a full queue is Error::Connection.
LocalBroadcast(p) ==
    /\ backend = "Local"
    /\ Broadcasts < MaxEvents
    /\ LET e == Event(p, sent[p].n + 1)
           r == try_broadcast(bus, e)
       IN  /\ bus' = r.bus
           /\ sent' = [sent EXCEPT ![p] = [n |-> @.n + 1,
                                           ret |-> IF r.ok THEN Unit ELSE Err("Connection"),
                                           lost |-> IF r.ok THEN @.lost ELSE @.lost \cup {e}]]
           /\ stream' = [s \in Subs |->
                            IF r.ok /\ stream[s].state = "active"
                            THEN [stream[s] EXCEPT !.due = Append(@, e)]
                            ELSE stream[s]]
    /\ UNCHANGED <<cache, caches, more, pubsub>>

\* The stream of a local subscription is polled: receiver.try_recv(), an
\* event or the end of the sequence.
LocalPoll(s) ==
    /\ backend = "Local"
    /\ stream[s].state = "active"
    /\ LET r == try_recv(bus, s)
       IN  /\ bus' = r.bus
           /\ stream' = [stream EXCEPT ![s] =
                            IF r.item = None
                            THEN [@ EXCEPT !.ends = 1]
                            ELSE [@ EXCEPT !.got = Append(@, r.item)]]
    /\ UNCHANGED <<cache, caches, more, pubsub, sent>>

\* redis Channel::listen: a connection of its own, subscribed to the channel.
RedisListen(s) ==
    /\ backend = "Redis"
    /\ stream[s].state = "none"
    /\ pubsub' = subscribe(pubsub, s)
    /\ stream' = [stream EXCEPT ![s].state = "active", ![s].past = AllSent]
    /\ UNCHANGED <<cache, caches, more, bus, sent>>

\* redis Channel::broadcast: PUBLISH of the encoded event.
RedisBroadcast(p) ==
    /\ backend = "Redis"
    /\ Broadcasts < MaxEvents
    /\ LET e == Event(p, sent[p].n + 1)
       IN  /\ pubsub' = publish(pubsub, cbor(e))
           /\ sent' = [sent EXCEPT ![p] = [n |-> @.n + 1, ret |-> Unit, lost |-> @.lost]]
           /\ stream' = [s \in Subs |->
                            IF stream[s].state = "active"
                            THEN [stream[s] EXCEPT !.due = Append(@, e)]
                            ELSE stream[s]]
    /\ UNCHANGED <<cache, caches, more, bus>>

\* The stream of a Redis subscription is polled when a message has arrived:
\* the payload is decoded.
RedisPoll(s) ==
    /\ backend = "Redis"
    /\ stream[s].state = "active"
    /\ pubsub.inbox[s] # <<>>
    /\ pubsub' = [pubsub EXCEPT !.inbox[s] = Tail(@)]
    /\ stream' = [stream EXCEPT ![s].got = Append(@, uncbor(Head(pubsub.inbox[s])))]
    /\ UNCHANGED <<cache, caches, more, bus, sent>>

NextChannel ==
    \/ \E s \in Subs : LocalListen(s)
    \/ \E p \in Producers : LocalBroadcast(p)
    \/ \E s \in Subs : LocalPoll(s)
    \/ \E s \in Subs : RedisListen(s)
    \/ \E p \in Producers : RedisBroadcast(p)
    \/ \E s \in Subs : RedisPoll(s)

SpecChannel == Init /\ [][NextChannel]_vars

\* The events held for subscription s that it has not yielded.
Pending(s) ==
    IF backend = "Local"
    THEN Unread(bus, s)
    ELSE [i \in 1..Len(pubsub.inbox[s]) |-> uncbor(pubsub.inbox[s][i]).v]

\* What subscription s has yielded and what is held for it are together the
\* events broadcast with success since it was created, in their order.
Full(s) == Values(stream[s].got) \o Pending(s) = stream[s].due

Active(s) == stream[s].state = "active"

\* C19: a subscription receives exactly the events broadcast with success on
\* its topic after its creation: what it has yielded is the beginning of
\* that sequence, each event once and in the order of the broadcasts, and
\* the rest is held for it, none lost.
C19_ExactlyInOrder ==
    \A s \in Subs : Active(s) => Full(s)

\* A subscription created after the first broadcast has yielded the two
\* events broadcast since, and nothing is left for it.
C19_Witness ==
    \E s \in Subs :
        /\ Active(s)
        /\ Broadcasts = 3
        /\ Len(stream[s].got) = 2
        /\ Values(stream[s].got) = stream[s].due
        /\ Pending(s) = <<>>

\* C20: delivery is fan-out: every active subscription is given every event
\* broadcast since its creation, in the same order as the others, and a
\* subscription that yields an event takes nothing from another: what that
\* one has yielded and what is held for it stay the same.
C20_FanOut ==
    [][\A s, t \in Subs :
          (s # t /\ Active(s) /\ Active(t))
          => /\ Full(s)' /\ Full(t)'
             /\ stream'[s].got # stream[s].got
                => /\ stream'[t].got = stream[t].got
                   /\ Pending(t)' = Pending(t)]_vars

\* Two subscriptions were given the same two events: one has yielded both,
\* the other none, and both are still held for it.
C20_Witness ==
    \E s, t \in Subs :
        /\ s # t /\ Active(s) /\ Active(t)
        /\ Len(stream[s].due) = 2
        /\ stream[s].due = stream[t].due
        /\ Values(stream[s].got) = stream[s].due
        /\ stream[t].got = <<>>
        /\ Pending(t) = stream[t].due

\* ------------------------------------------------------------- no replay
\* The events subscription s has yielded or has held for it.
Delivered(s) ==
    {stream[s].got[i].v : i \in 1..Len(stream[s].got)}
        \cup {Pending(s)[i] : i \in 1..Len(Pending(s))}

\* C21: there is no replay: an event whose broadcast returned before the
\* listen() call that created a subscription is never yielded by that
\* subscription nor held for it.
C21_NoReplay ==
    \A s \in Subs : Active(s) => Delivered(s) \cap stream[s].past = {}

\* A subscription created after two broadcasts has yielded the one event
\* broadcast since.
C21_Witness ==
    \E s \in Subs :
        /\ Active(s)
        /\ Cardinality(stream[s].past) > 1
        /\ Len(stream[s].got) = 1
        /\ Delivered(s) = AllSent \ stream[s].past

\* ------------------------------------------------------------- producers
\* Two producers broadcast on the topic while their calls overlap: a call of
\* broadcast begins, and the event reaches the bus or the server at a later
\* step, when the producer has the lock of the bus or its PUBLISH is served.

\* The producer that broadcast event e.
ProducerOf(e) == e[1] \div 10

\* Producer p calls broadcast; at its first call it notes the broadcasts
\* that have returned.
BroadcastCall(p) ==
    /\ calls[p].n = sent[p].n
    /\ calls[1].n + calls[2].n < MaxEvents
    /\ calls' = [calls EXCEPT ![p] =
                    [n |-> @.n + 1,
                     seen |-> IF @.n = 0 THEN [q \in Producers |-> sent[q].n] ELSE @.seen]]
    /\ UNCHANGED <<cache, caches, channels, topics, templates, secrets, locks>>

\* The broadcast producer p has called takes effect and returns.
BroadcastReturn(p) ==
    /\ calls[p].n > sent[p].n
    /\ \/ LocalBroadcast(p)
       \/ RedisBroadcast(p)

NextProducers ==
    \/ \E p \in Producers : BroadcastCall(p)
    \/ \E p \in Producers : BroadcastReturn(p)
    \/ \E s \in Subs : LocalListen(s)
    \/ \E s \in Subs : LocalPoll(s)
    \/ \E s \in Subs : RedisListen(s)
    \/ \E s \in Subs : RedisPoll(s)

SpecProducers == Init /\ [][NextProducers]_vars

\* What subscription s has yielded, then what is held for it.
Received(s) == Values(stream[s].got) \o Pending(s)

\* The events of producer p whose broadcast returned Ok, in the order of its
\* broadcasts.
Accepted(p) ==
    SelectSeq([n \in 1..sent[p].n |-> Event(p, n)], LAMBDA e : e \notin sent[p].lost)

\* Every broadcast of producer p had returned when producer q first called
\* broadcast.
AllBefore(p, q) ==
    /\ sent[p].n > 0
    /\ calls[q].n > 0
    /\ calls[p].n = sent[p].n
    /\ calls[q].seen[p] = sent[p].n

\* Subscription s was created before any broadcast returned.
Beforehand(s) == Active(s) /\ stream[s].past = {}

\* C22: a subscription created before two producers broadcast on the topic
\* receives every event of each that was broadcast with success, each
\* producer's events in the order of that producer's broadcasts; and when
\* all the broadcasts of one producer returned before the other's first
\* began, every event of the first comes before every event of the other.
C22_TwoProducers ==
    \A s \in Subs :
        Beforehand(s) =>
            /\ \A p \in Producers :
                  SelectSeq(Received(s), LAMBDA e : ProducerOf(e) = p) = Accepted(p)
            /\ \A p, q \in Producers :
                  (p # q /\ AllBefore(p, q)) =>
                      \A i, j \in 1..Len(Received(s)) :
                          (ProducerOf(Received(s)[i]) = p /\ ProducerOf(Received(s)[j]) = q)
                              => i < j

\* A subscription created beforehand has yielded the events of both
\* producers, the two of the producer that finished first and then the one
\* of the other.
C22_Witness ==
    \E s \in Subs : \E p, q \in Producers :
        /\ Beforehand(s)
        /\ p # q /\ AllBefore(p, q)
        /\ Len(Accepted(p)) > 1
        /\ Values(stream[s].got) = Accepted(p) \o Accepted(q)
        /\ Accepted(q) # <<>>

\* ------------------------------------------------------ end of the sequence
\* C23: the topic stays open in every behaviour (the engine keeps its bus, the
\* server keeps the connection), so no subscription reports the end of its
\* sequence, in particular not when it is polled with no event held for it.
C23_EndsOnlyWhenClosed ==
    \A s \in Subs : Active(s) => stream[s].ends = 0

\* ---------------------------------------------------------- a full queue
\* Some active subscription holds queue_size events it has not consumed.
SomeQueueFull == \E s \in Subs : Active(s) /\ Len(Pending(s)) >= QueueSize

\* Producer p's broadcast returns in this step.
Returns(p) == sent'[p].n = sent[p].n + 1

\* C24: on the local backend, while some active subscription holds
\* queue_size events it has not consumed, a broadcast is not held back until
\* that subscription consumes (it can return at once), and when it returns
\* it returns the queue-full error and has queued nothing: it has not
\* succeeded while leaving the event out for that subscription.
C24_QueueFull ==
    [][\A p \in Producers :
          (backend = "Local" /\ SomeQueueFull)
          => /\ Broadcasts < MaxEvents => ENABLED LocalBroadcast(p)
             /\ Returns(p)
                => /\ sent'[p].ret = Err("Connection")
                   /\ \A s \in Subs : Active(s) => Pending(s)' = Pending(s)]_vars

\* A broadcast has returned the queue-full error while a subscription holds
\* queue_size events.
C24_Witness ==
    \E p \in Producers : \E s \in Subs :
        /\ backend = "Local"
        /\ Active(s)
        /\ Len(Pending(s)) = QueueSize
        /\ sent[p].n > 0
        /\ sent[p].ret = Err("Connection")
        /\ Event(p, sent[p].n) \in sent[p].lost

\* -------------------------------------------------------- all or nothing
\* C25: a local broadcast is all-or-nothing: when it returns Ok its event
\* has been added, last, to what is held for every active subscription, and
\* when it returns an error what is held for every subscription is what it
\* was, the event queued for none.
C25_AllOrNothing ==
    [][\A p \in Producers :
          (backend = "Local" /\ Returns(p))
          => LET e == Event(p, sent'[p].n)
             IN  \A s \in Subs :
                    Active(s)
                    => Pending(s)' = IF sent'[p].ret = Unit
                                     THEN Append(Pending(s), e)
                                     ELSE Pending(s)]_vars

\* Of two subscriptions one holds queue_size events and the other has room:
\* the last broadcast returned an error and its event is held for neither.
C25_Witness ==
    \E p \in Producers : \E s, t \in Subs :
        /\ backend = "Local"
        /\ Active(s) /\ Active(t)
        /\ Len(Pending(s)) = QueueSize
        /\ Len(Pending(t)) < QueueSize
        /\ sent[p].n > 0
        /\ sent[p].ret = Err("Connection")
        /\ Event(p, sent[p].n) \notin Delivered(s) \cup Delivered(t)
        /\ Broadcasts = QueueSize + 1

\* ------------------------------------------------------- fire and forget
\* The topic has no active subscription.
NoneActive == \A s \in Subs : ~Active(s)

\* The events broadcast while the topic had no active subscription: all of
\* them while there is none, and then those broadcast before the creation of
\* every subscription there is.
Discarded ==
    {e \in AllSent : \A s \in Subs : Active(s) => e \in stream[s].past}

\* C26: a broadcast on a topic without active subscription returns Ok,
\* however many were made before it, and its event is discarded: it is not
\* held for anyone, and no subscription created later yields it or has it
\* held.
C26_FireAndForget ==
    [][/\ \A p \in Producers :
             (NoneActive /\ Returns(p))
             => /\ sent'[p].ret = Unit
                /\ Event(p, sent'[p].n) \in Discarded'
                /\ stream' = stream
       /\ \A s \in Subs : Active(s)' => Delivered(s)' \cap Discarded' = {}]_vars

\* More broadcasts than queue_size were made on the topic without
\* subscription of the local backend, all returned Ok, and the subscription
\* created after them has been polled and was given nothing.
C26_Witness ==
    \E s \in Subs :
        /\ Active(s)
        /\ Cardinality(Discarded) > QueueSize
        /\ \A p \in Producers : sent[p].lost = {} /\ sent[p].ret \in {Unit, None}
        /\ Delivered(s) = {}
        /\ backend = "Local"
        /\ stream[s].ends > 0

\* -------------------------------------------------------- decode failures
\* A Redis channel is named by prefix and topic alone, so a handle for the
\* same topic with another event type publishes to the same channel.  Here
\* producers may also hold a Channel<Vec<u8>> for the topic; the
\* subscriptions are those of a Channel<String>.

\* The n-th event producer p broadcasts as a Vec<u8>.
Bytes(p, n) == <<100 + 10 * p + n>>

\* Event e was broadcast as a Vec<u8>.
IsBytes(e) == e[1] >= 100

\* redis Channel<Vec<u8>>::broadcast: PUBLISH of the encoded byte vector.
RedisBroadcastBytes(p) ==
    /\ backend = "Redis"
    /\ Broadcasts < MaxEvents
    /\ LET e == Bytes(p, sent[p].n + 1)
       IN  /\ pubsub' = publish(pubsub, value_serialize("Vec<u8>", e))
           /\ sent' = [sent EXCEPT ![p] = [n |-> @.n + 1, ret |-> Unit, lost |-> @.lost]]
           /\ stream' = [s \in Subs |->
                            IF stream[s].state = "active"
                            THEN [stream[s] EXCEPT !.due = Append(@, e)]
                            ELSE stream[s]]
    /\ UNCHANGED <<cache, caches, more, bus>>

NextDecode ==
    \/ NextChannel
    \/ \E p \in Producers : RedisBroadcastBytes(p)

SpecDecode == Init /\ [][NextDecode]_vars

\* The item a Channel<String> subscription is to yield for event e.
Expected(e) == IF IsBytes(e) THEN Err("Encoding") ELSE Some(e)

\* C27: on the Redis backend a payload that does not decode is yielded as
\* one Encoding error item, in its place in the sequence, and the sequence
\* goes on: what a subscription has yielded is, item for item, the events
\* published since its creation, those published after the failing payload
\* included; the rest is still to come and the sequence has not ended.
C27_DecodeErrorInSequence ==
    \A s \in Subs :
        (backend = "Redis" /\ Active(s))
        => /\ Len(stream[s].got) + Len(pubsub.inbox[s]) = Len(stream[s].due)
           /\ stream[s].got = [i \in 1..Len(stream[s].got) |-> Expected(stream[s].due[i])]
           /\ stream[s].ends = 0

\* A subscription has yielded an event, then the error of a payload that
\* did not decode, then the event published after it.
C27_Witness ==
    \E s \in Subs : \E e, f \in AllSent :
        /\ backend = "Redis"
        /\ Active(s)
        /\ stream[s].got = <<Some(e), Err("Encoding"), Some(f)>>
        /\ IsBytes(stream[s].due[Len(stream[s].due) - 1])

\* ================================================================= topics
\* The handles of an engine: callers ask the engine for the channel of a
\* topic and an event type, at the same time or one after the other, and
\* then listen and broadcast through the handles they were given.  Caller h
\* is producer h and its subscription is subscription h.

\* "t" and "u"
TopicNames == {<<116>>, <<117>>}

\* Bus::new(self.queue_size); for whom it was created is kept with it
\* (history).
NewBus(key) == [log |-> <<>>, head |-> [s \in Subs |-> -1], key |-> key]

\* HashMap::insert: the key is bound to the new bus, also when it had one.
channel_insert(reg, key, id) ==
    [k \in DOMAIN reg \cup {key} |-> IF k = key THEN id ELSE reg[k]]

\* channel_types.entry::<HashMap<String, Arc<Channel<T>>>>().or_insert_with(..)
\* and channels.entry(topic).or_insert_with(..): the bus the event type and
\* the topic have, or the new one when they have none.
channel_entry(reg, key, id) ==
    IF key \in DOMAIN reg
    THEN reg
    ELSE [k \in DOMAIN reg \cup {key} |-> IF k = key THEN id ELSE reg[k]]

\* A registry with one map of channels for all event types.
channel_key_untyped(ty, topic) == <<"", topic>>

\* What the registry is keyed by: the TypeMap has one HashMap of channels
\* for each event type, keyed by the topic.
channel_key(ty, topic) == <<ty, topic>>

\* The handle of caller h is ready.
Ready(h) == chan[h].pc = "ready"

\* The handles of g and h were asked for the same topic and event type.
SameTopic(g, h) ==
    /\ Ready(g) /\ Ready(h)
    /\ chan[g].ty = chan[h].ty
    /\ chan[g].topic = chan[h].topic

\* local ChannelProducer::channel::<T>(topic) is called: the caller waits
\* for the lock of the engine's registry.
LocalChannelCall(h, ty, topic) ==
    /\ backend = "Local"
    /\ chan[h].pc = "new"
    /\ chan' = [chan EXCEPT ![h] =
                   [pc |-> "registry", ty |-> ty, topic |-> topic, id |-> <<>>,
                    raced |-> \E g \in Subs \ {h} : chan[g].pc \in {"registry", "entry"}]]
    /\ UNCHANGED <<cache, caches, channels, calls, templates, secrets, locks, channel_types, tguard, buses>>

\* self.channel_types.lock()
LocalChannelLock(h) ==
    /\ backend = "Local"
    /\ chan[h].pc = "registry"
    /\ lock(tguard)
    /\ tguard' = h
    /\ chan' = [chan EXCEPT ![h].pc = "entry"]
    /\ UNCHANGED <<cache, caches, channels, calls, templates, secrets, locks, channel_types, buses>>

\* The two entry(..).or_insert_with(..), the clone of the Arc into the new
\* handle; the guard is dropped.
LocalChannelEntry(h) ==
    /\ backend = "Local"
    /\ chan[h].pc = "entry"
    /\ LET key == channel_key(chan[h].ty, chan[h].topic)
           id == Len(buses) + 1
           reg == channel_entry(channel_types, key, id)
       IN  /\ channel_types' = reg
           /\ buses' = IF reg[key] = id THEN Append(buses, NewBus(key)) ELSE buses
           /\ chan' = [chan EXCEPT ![h].pc = "ready", ![h].id = reg[key]]
    /\ tguard' = 0
    /\ UNCHANGED <<cache, caches, channels, calls, templates, secrets, locks>>

\* redis ChannelProducer::channel::<T>(topic): a handle holding the name of
\* the channel, format!("{}{}", self.prefix, topic).
RedisChannelCall(h, ty, topic) ==
    /\ backend = "Redis"
    /\ chan[h].pc = "new"
    /\ chan' = [chan EXCEPT ![h] =
                   [pc |-> "ready", ty |-> ty, topic |-> topic,
                    id |-> format_prefix(Prefix, topic), raced |-> FALSE]]
    /\ UNCHANGED <<cache, caches, channels, calls, templates, secrets, locks, channel_types, tguard, buses>>

\* The subscriptions that are to receive what is broadcast through the
\* handle of p: the active ones of the same topic and event type.
Audience(p) == {s \in Subs : Active(s) /\ SameTopic(p, s)}

\* What a broadcast of event e by producer p leaves in the histories.
Broadcast(p, e, ok) ==
    /\ sent' = [sent EXCEPT ![p] = [n |-> @.n + 1,
                                    ret |-> IF ok THEN Unit ELSE Err("Connection"),
                                    lost |-> IF ok THEN @.lost ELSE @.lost \cup {e}]]
    /\ stream' = [s \in Subs |->
                     IF ok /\ s \in Audience(p)
                     THEN [stream[s] EXCEPT !.due = Append(@, e)]
                     ELSE stream[s]]

\* local Channel::listen through the handle of h.
LocalHandleListen(h) ==
    /\ backend = "Local"
    /\ Ready(h)
    /\ stream[h].state = "none"
    /\ buses' = [buses EXCEPT ![chan[h].id] = add_rx(@, h)]
    /\ stream' = [stream EXCEPT ![h].state = "active", ![h].past = AllSent]
    /\ UNCHANGED <<cache, caches, calls, templates, secrets, locks, channel_types, tguard, chan, bus, pubsub, sent>>

\* local Channel::broadcast through the handle of p.
LocalHandleBroadcast(p) ==
    /\ backend = "Local"
    /\ Ready(p)
    /\ Broadcasts < MaxEvents
    /\ LET e == Event(p, sent[p].n + 1)
           r == try_broadcast(buses[chan[p].id], e)
       IN  /\ buses' = [buses EXCEPT ![chan[p].id] = r.bus]
           /\ Broadcast(p, e, r.ok)
    /\ UNCHANGED <<cache, caches, calls, templates, secrets, locks, channel_types, tguard, chan, bus, pubsub>>

\* The stream h was given by the local handle is polled.
LocalHandlePoll(h) ==
    /\ backend = "Local"
    /\ stream[h].state = "active"
    /\ LET r == try_recv(buses[chan[h].id], h)
       IN  /\ buses' = [buses EXCEPT ![chan[h].id] = r.bus]
           /\ stream' = [stream EXCEPT ![h] =
                            IF r.item = None
                            THEN [@ EXCEPT !.ends = 1]
                            ELSE [@ EXCEPT !.got = Append(@, r.item)]]
    /\ UNCHANGED <<cache, caches, calls, templates, secrets, locks, channel_types, tguard, chan, bus, pubsub, sent>>

\* redis Channel::listen through the handle of h: SUBSCRIBE to its channel.
RedisHandleListen(h) ==
    /\ backend = "Redis"
    /\ Ready(h)
    /\ stream[h].state = "none"
    /\ pubsub' = subscribe(pubsub, h)
    /\ stream' = [stream EXCEPT ![h].state = "active", ![h].past = AllSent]
    /\ UNCHANGED <<cache, caches, more, bus, sent>>

\* redis Channel::broadcast through the handle of p: PUBLISH to its channel;
\* the server pushes the payload to the connections subscribed to that
\* channel.
RedisHandleBroadcast(p) ==
    /\ backend = "Redis"
    /\ Ready(p)
    /\ Broadcasts < MaxEvents
    /\ LET e == Event(p, sent[p].n + 1)
           there == {s \in pubsub.subscribed : chan[s].id = chan[p].id}
           pushed == publish([pubsub EXCEPT !.subscribed = there],
                             value_serialize(chan[p].ty, e))
       IN  /\ pubsub' = [pushed EXCEPT !.subscribed = pubsub.subscribed]
           /\ Broadcast(p, e, TRUE)
    /\ UNCHANGED <<cache, caches, more, bus>>

\* The stream h was given by the Redis handle is polled when a message has
\* arrived: the payload is decoded as the event type of the handle.
RedisHandlePoll(h) ==
    /\ backend = "Redis"
    /\ stream[h].state = "active"
    /\ pubsub.inbox[h] # <<>>
    /\ pubsub' = [pubsub EXCEPT !.inbox[h] = Tail(@)]
    /\ stream' = [stream EXCEPT
                     ![h].got = Append(@, value_deserialize(chan[h].ty, Head(pubsub.inbox[h])))]
    /\ UNCHANGED <<cache, caches, more, bus, sent>>

NextTopics ==
    \/ \E h \in Subs, ty \in Types, topic \in TopicNames : LocalChannelCall(h, ty, topic)
    \/ \E h \in Subs : LocalChannelLock(h)
    \/ \E h \in Subs : LocalChannelEntry(h)
    \/ \E h \in Subs, ty \in Types, topic \in TopicNames : RedisChannelCall(h, ty, topic)
    \/ \E h \in Subs : LocalHandleListen(h)
    \/ \E p \in Producers : LocalHandleBroadcast(p)
    \/ \E h \in Subs : LocalHandlePoll(h)
    \/ \E h \in Subs : RedisHandleListen(h)
    \/ \E p \in Producers : RedisHandleBroadcast(p)
    \/ \E h \in Subs : RedisHandlePoll(h)

SpecTopics == Init /\ [][NextTopics]_vars

\* The events among the items of a stream.
Events(items) ==
    LET ok == SelectSeq(items, LAMBDA x : x.tag = "Some")
    IN  [i \in 1..Len(ok) |-> ok[i].v]

\* The events held for the subscription of h that it has not yielded.
Held(h) ==
    IF backend = "Local"
    THEN Unread(buses[chan[h].id], h)
    ELSE Events([i \in 1..Len(pubsub.inbox[h]) |->
                    value_deserialize(chan[h].ty, pubsub.inbox[h][i])])

\* C28: two handles an engine gave for the same topic and event type, also
\* to callers that asked at the same time for a topic not seen before, are
\* backed by the same bus (the same Redis channel): a subscription created
\* through one receives, in order, the events broadcast with success through
\* the other and through itself since its creation; and the engine never
\* has two buses for one topic and event type.
C28_OneBusPerTopic ==
    /\ \A g, h \in Subs : SameTopic(g, h) => chan[g].id = chan[h].id
    /\ \A h \in Subs : Active(h) => Events(stream[h].got) \o Held(h) = stream[h].due
    /\ \A i, j \in 1..Len(buses) : buses[i].key = buses[j].key => i = j

\* Two callers asked at the same time for the same new topic, and the
\* subscription of one has yielded the event the other broadcast.
C28_Witness ==
    \E g, h \in Subs :
        /\ g # h
        /\ backend = "Local"
        /\ SameTopic(g, h)
        /\ chan[g].raced \/ chan[h].raced
        /\ Len(buses) = 1
        /\ stream[h].got = <<Some(Event(g, 1))>>

\* ============================================================== templates
\* Template::text(replacements) interpolates the body of the template: each
\* token "${key}" for which replacements(key) is Some(r) is to become r.  A
\* string is its UTF-8 bytes; the characters used are '$' 36, '{' 123,
\* '}' 125, the letters a b x A B E, and U+00E9, which is the two bytes
\* 195 169.

\* A body is made of at most MaxPieces pieces.
MaxPieces == 3

\* "${a}", "${b}", "${}", "${", "$", "x" and U+00E9
Pieces ==
    {<<36, 123, 97, 125>>, <<36, 123, 98, 125>>, <<36, 123, 125>>, <<36, 123>>,
     <<36>>, <<120>>, <<195, 169>>}

RECURSIVE Bodies(_)
Bodies(n) ==
    IF n = 0
    THEN {<<>>}
    ELSE Bodies(n - 1) \cup {b \o piece : b \in Bodies(n - 1), piece \in Pieces}

\* The replacements functions: "a" has no replacement, the empty one or
\* "A"; "b" has none or "BB"; the empty key has none or "E"; any other key
\* has none.
Replacements ==
    {[key \in {<<97>>, <<98>>, <<>>} |->
         IF key = <<97>> THEN x ELSE IF key = <<98>> THEN y ELSE z] :
        x \in {None, Some(<<>>), Some(<<65>>)},
        y \in {None, Some(<<66, 66>>)},
        z \in {None, Some(<<69>>)}}

\* replacements(key)
replacements(f, key) == IF key \in DOMAIN f THEN f[key] ELSE None

\* str::chars: one item for each character, here its first byte (the bytes
\* 128 to 191 continue a character).
chars(string) == SelectSeq(string, LAMBDA b : b < 128 \/ b > 191)

\* str::is_char_boundary
is_char_boundary(string, at) ==
    \/ at = 0
    \/ at = Len(string)
    \/ at < Len(string) /\ (string[at + 1] < 128 \/ string[at + 1] > 191)

\* The for loop of next_replacement over string.chars().enumerate(), from
\* item i in state st: the ranges of the first token completed, None if the
\* characters end before.
RECURSIVE scan(_, _, _, _, _)
scan(cs, st, p, k, i) ==
    IF i >= Len(cs)
    THEN None
    ELSE LET c == cs[i + 1]
         IN  IF st = "BeforeStart" /\ c = 36 THEN scan(cs, "Start", i, k, i + 1)
             ELSE IF st = "Start" /\ c = 123 THEN scan(cs, "Key", p, i + 1, i + 1)
             ELSE IF st = "Key" /\ c = 125
                  THEN Some([replacement_range |-> [start |-> p, end |-> i + 1],
                             key_range |-> [start |-> k, end |-> i]])
             ELSE IF st = "Key" THEN scan(cs, "Key", p, k, i + 1)
             ELSE scan(cs, "BeforeStart", p, k, i + 1)

\* Template::next_replacement: .skip(offset) leaves out the first offset
\* characters.
next_replacement(offset, string) ==
    scan(chars(string), "BeforeStart", 0, 0, offset)

\* &text[range] and text.replace_range(range, ..) take the range in bytes
\* and panic unless both its ends are character boundaries.
Sliceable(string, range) ==
    /\ range.start <= range.end
    /\ range.end <= Len(string)
    /\ is_char_boundary(string, range.start)
    /\ is_char_boundary(string, range.end)

Slice(string, range) == SubSeq(string, range.start + 1, range.end)

\* String::replace_range
replace_range(string, range, with) ==
    SubSeq(string, 1, range.start) \o with \o SubSeq(string, range.end + 1, Len(string))

\* Template::text is called on a template with body b.
TemplateText(b, f) ==
    /\ tpc = "new"
    /\ body' = b
    /\ repl' = f
    /\ text' = b
    /\ index' = 0
    /\ tpc' = "loop"
    /\ UNCHANGED <<cache, caches, channels, calls, topics, secrets, locks, replaced>>

\* interpolate: next_replacement finds no token, the loop ends and text is
\* returned.
InterpolateReturn ==
    /\ tpc = "loop"
    /\ next_replacement(index, text) = None
    /\ tpc' = "done"
    /\ UNCHANGED <<cache, caches, channels, calls, topics, secrets, locks, body, repl, text, index, replaced>>

\* interpolate: one turn of the loop, for the token next_replacement found:
\* the key is sliced from text, and the token is replaced when the key has a
\* replacement.
InterpolateToken ==
    /\ tpc = "loop"
    /\ next_replacement(index, text) # None
    /\ LET found == next_replacement(index, text).v
           replacement_range == found.replacement_range
           key_range == found.key_range
       IN  IF ~Sliceable(text, key_range)
           THEN /\ tpc' = "panicked"
                /\ UNCHANGED <<text, index, replaced>>
           ELSE LET key == Slice(text, key_range)
                    replacement == replacements(repl, key)
                IN  IF replacement = None
                    THEN /\ index' = index + replacement_range.start + Len(key)
                         /\ UNCHANGED <<text, tpc, replaced>>
                    ELSE /\ index' = index + replacement_range.start + Len(replacement.v)
                         /\ IF Sliceable(text, replacement_range)
                            THEN /\ text' = replace_range(text, replacement_range, replacement.v)
                                 /\ replaced' = Append(replaced, key)
                                 /\ UNCHANGED tpc
                            ELSE /\ tpc' = "panicked"
                                 /\ UNCHANGED <<text, replaced>>
    /\ UNCHANGED <<cache, caches, channels, calls, topics, secrets, locks, body, repl>>

NextTemplate ==
    \/ tpc = "new" /\ \E b \in Bodies(MaxPieces), f \in Replacements : TemplateText(b, f)
    \/ InterpolateReturn
    \/ InterpolateToken

SpecTemplate == Init /\ [][NextTemplate]_vars

\* The first complete token of s: "${", then the key, the characters up to
\* the first '}' (a token is consumed in its entirety until a closing
\* bracket); None if s has no complete token.
FirstToken(s) ==
    LET starts == {i \in 1..Len(s) - 1 :
                      /\ s[i] = 36 /\ s[i + 1] = 123
                      /\ \E j \in i + 2..Len(s) : s[j] = 125}
    IN  IF starts = {}
        THEN None
        ELSE LET i == CHOOSE x \in starts : \A y \in starts : x <= y
                 j == CHOOSE x \in i + 2..Len(s) :
                         s[x] = 125 /\ \A y \in i + 2..x - 1 : s[y] # 125
             IN  Some([from |-> i, to |-> j, key |-> SubSeq(s, i + 2, j - 1)])

\* The keys of the complete tokens of s that f replaces, in their order.
RECURSIVE Due(_, _)
Due(s, f) ==
    IF FirstToken(s) = None
    THEN <<>>
    ELSE LET t == FirstToken(s).v
         IN  (IF replacements(f, t.key) = None THEN <<>> ELSE <<t.key>>)
                 \o Due(SubSeq(s, t.to + 1, Len(s)), f)

\* s with each complete token that f replaces replaced, and everything else
\* as it is in s.
RECURSIVE Interpolated(_, _)
Interpolated(s, f) ==
    IF FirstToken(s) = None
    THEN s
    ELSE LET t == FirstToken(s).v
             r == replacements(f, t.key)
         IN  SubSeq(s, 1, t.from - 1)
                 \o (IF r = None THEN SubSeq(s, t.from, t.to) ELSE r.v)
                 \o Interpolated(SubSeq(s, t.to + 1, Len(s)), f)

\* Template::text has come to its end.
Ended == tpc \in {"done", "panicked"}

\* C29: Template::text replaces every complete token whose key has a
\* replacement, however many tokens the body has: when it ends it has
\* returned, and the tokens it replaced are all of those, in their order.
C29_EveryTokenReplaced ==
    Ended => (tpc = "done" /\ replaced = Due(body, repl))

\* C30: interpolation changes nothing but replaced tokens: what
\* Template::text returns is the body with each token that has a replacement
\* replaced and all the rest, tokens without replacement, unterminated
\* tokens and the text between tokens, as it is in the body; in particular
\* the tokens after a token without replacement are replaced.
C30_NothingElseChanges ==
    Ended => (tpc = "done" /\ text = Interpolated(body, repl))

\* ================================================================ secrets
\* session::store::Secret<SIZE> is a key of SIZE bytes with a string form:
\* Into<String> writes it and FromStr (str::parse, TryFrom<String>) reads it.
\* A string is the sequence of its characters, each its code point: the
\* strings parsed are made of '1' 49, '2' 50, 'F' 70, 'f' 102, 'g' 103 and
\* U+00E9 233.

\* A Secret has at most MaxSize bytes, a string parsed at most MaxChars
\* characters.
MaxSize == 2
MaxChars == 5

Sizes == 0..MaxSize

\* 0x00, 0x12, 0x21, 0xF5 and 0xFF
KeyBytes == {0, 18, 33, 245, 255}

Secrets == UNION {{[SIZE |-> n, key |-> k] : k \in [1..n -> KeyBytes]} : n \in Sizes}

Chars == {49, 50, 70, 102, 103, 233}

Strings == UNION {[1..n -> Chars] : n \in 0..MaxChars}

\* Result::Ok, and the outcome of a call that panics
Ok(v) == [tag |-> "Ok", v |-> v]
Panicked == [tag |-> "Panicked"]

\* char::len_utf8
len_utf8(c) == IF c < 128 THEN 1 ELSE IF c < 2048 THEN 2 ELSE IF c < 65536 THEN 3 ELSE 4

\* str::len: the length of the string in bytes
RECURSIVE len(_)
len(s) == IF s = <<>> THEN 0 ELSE len_utf8(Head(s)) + len(Tail(s))

\* char::to_digit(16)
to_digit(c) ==
    IF c \in 48..57 THEN Some(c - 48)
    ELSE IF c \in 97..102 THEN Some(c - 87)
    ELSE IF c \in 65..70 THEN Some(c - 55)
    ELSE None

\* Secret::DIGITS[i]
DIGITS(i) == IF i < 10 THEN 48 + i ELSE 55 + i

\* slice::chunks(2): the items two by two, the last chunk alone when the
\* number of items is odd
chunks(items) ==
    [j \in 1..(Len(items) + 1) \div 2 |->
        SubSeq(items, 2 * j - 1, IF 2 * j <= Len(items) THEN 2 * j ELSE 2 * j - 1)]

\* The closure of from_str's second map, (c[1] | (c[0] << 4)) as u8: the
\* digits are below 16, so the bits of the two do not overlap.
byte_of(c) == (c[2] + c[1] * 16) % 256

\* A from_str that looks at the length before it looks at the characters.
from_str_length_first(SIZE, s) ==
    IF Len(s) # 2 * SIZE
    THEN Err(<<"expected length of secret to be ", 2 * SIZE, ", found ", len(s)>>)
    ELSE IF \E i \in 1..Len(s) : to_digit(s[i]) = None
    THEN Err(<<"secret contains an invalid character">>)
    ELSE Ok([SIZE |-> SIZE,
             key |-> [j \in 1..SIZE |->
                         byte_of(<<to_digit(s[2 * j - 1]).v, to_digit(s[2 * j]).v>>)]])

\* <Secret<SIZE> as FromStr>::from_str: Panicked where an index or the
\* unwrap would panic.
from_str(SIZE, s) ==
    LET digits == [i \in 1..Len(s) |-> to_digit(s[i])]
    IN  IF \E i \in 1..Len(s) : digits[i] = None
        THEN Err(<<"secret contains an invalid character">>)
        ELSE LET bytes == [i \in 1..Len(s) |-> digits[i].v]
             IN  IF Len(bytes) # 2 * SIZE
                 THEN Err(<<"expected length of secret to be ", 2 * SIZE, ", found ", len(s)>>)
                 ELSE IF \E j \in 1..Len(chunks(bytes)) : Len(chunks(bytes)[j]) < 2
                 THEN Panicked
                 ELSE IF Len(chunks(bytes)) # SIZE
                 THEN Panicked
                 ELSE Ok([SIZE |-> SIZE,
                          key |-> [j \in 1..SIZE |-> byte_of(chunks(bytes)[j])]])

\* <Secret<SIZE> as Into<String>>::into
into(s) ==
    [j \in 1..s.SIZE |->
        LET i == j - 1
            byte == s.key[(i \div 2) + 1]
        IN  IF i % 2 = 0
            THEN DIGITS(byte % 16)
            ELSE DIGITS((byte \div 16) % 16)]

\* A secret is converted into its string.
SecretInto(s) ==
    /\ spc = "new"
    /\ secret' = s
    /\ hex' = into(s)
    /\ spc' = "string"
    /\ UNCHANGED <<cache, caches, channels, calls, topics, templates, locks, parsed>>

\* The string a secret was converted into is parsed as a secret of the same
\* size.
SecretParseBack ==
    /\ spc = "string"
    /\ parsed' = from_str(secret.SIZE, hex)
    /\ spc' = "back"
    /\ UNCHANGED <<cache, caches, channels, calls, topics, templates, locks, secret, hex>>

\* source.parse::<Secret<SIZE>>() on any string.
SecretParse(SIZE, source) ==
    /\ spc = "new"
    /\ secret' = [SIZE |-> SIZE, key |-> <<>>]
    /\ hex' = source
    /\ parsed' = from_str(SIZE, source)
    /\ spc' = "parsed"
    /\ UNCHANGED <<cache, caches, channels, calls, topics, templates, locks>>

NextSecret ==
    \/ spc = "new" /\ \E s \in Secrets : SecretInto(s)
    \/ SecretParseBack
    \/ spc = "new" /\ \E SIZE \in Sizes, source \in Strings : SecretParse(SIZE, source)

SpecSecret == Init /\ [][NextSecret]_vars

\* The hexadecimal digits.
HexDigits == (48..57) \cup (65..70) \cup (97..102)

\* C31: the string of a secret has 2 * SIZE hexadecimal characters, and
\* parsing it gives the secret back.
C31_RoundTrip ==
    /\ spc \in {"string", "back"} =>
           /\ Len(hex) = 2 * secret.SIZE
           /\ \A i \in 1..Len(hex) : hex[i] \in HexDigits
    /\ spc = "back" => parsed = Ok(secret)

\* The value of a hexadecimal digit.
HexValue(c) == IF c \in 48..57 THEN c - 48 ELSE IF c \in 65..70 THEN c - 55 ELSE c - 87

\* C32: the two characters of a byte are its low four bits, then its high
\* four bits, both when a string is parsed (0x12 is parsed from "21") and
\* when a secret is written.
C32_LowNibbleFirst ==
    /\ (spc = "parsed" /\ parsed.tag = "Ok") =>
           \A j \in 1..secret.SIZE :
               parsed.v.key[j] = HexValue(hex[2 * j - 1]) + 16 * HexValue(hex[2 * j])
    /\ spc \in {"string", "back"} =>
           \A i \in 1..Len(hex) :
               HexValue(hex[i]) =
                   IF i % 2 = 1
                   THEN secret.key[(i + 1) \div 2] % 16
                   ELSE secret.key[i \div 2] \div 16

\* C33: parsing is total and never panics: a string with a character that
\* is not a hexadecimal digit gives "secret contains an invalid character",
\* whatever its length; a string of n hexadecimal digits with n other than
\* 2 * SIZE gives "expected length of secret to be 2 * SIZE, found n"; a
\* string of exactly 2 * SIZE hexadecimal digits gives Ok.
C33_ParseTotal ==
    spc \in {"parsed", "back"} =>
        IF \E i \in 1..Len(hex) : hex[i] \notin HexDigits
        THEN parsed = Err(<<"secret contains an invalid character">>)
        ELSE IF Len(hex) # 2 * secret.SIZE
        THEN parsed = Err(<<"expected length of secret to be ", 2 * secret.SIZE,
                            ", found ", Len(hex)>>)
        ELSE parsed.tag = "Ok"

\* A string of the wrong length with a character that is no digit has been
\* parsed and refused for the character.
C33_Witness ==
    /\ spc = "parsed"
    /\ Len(hex) # 2 * secret.SIZE
    /\ \E i \in 1..Len(hex) : hex[i] = 233
    /\ \E i \in 1..Len(hex) : hex[i] = 70
    /\ parsed = Err(<<"secret contains an invalid character">>)

\* ======================================================== the frame of get
\* The entry of d that a reader at instant t can see.
Visible(d, t) == IF d # NoData /\ t < d.expiry THEN d ELSE NoData

\* C34: a get changes nothing of a live entry, neither its value nor its
\* expiry, so the entry still expires at the instant its last put or
\* replace set; the only change a get makes is to remove the entry it found
\* expired, and what the Redis server holds for a reader is the same before
\* and after.
C34_GetHasNoEffect ==
    \A p \in Callers :
        res[p].op = "get" =>
            /\ HeldLive(res[p]) => res[p].after = res[p].before
            /\ res[p].after # res[p].before =>
                   /\ res[p].after = NoData
                   /\ res[p].at >= res[p].before.expiry
            /\ backend = "Redis" =>
                   Visible(res[p].after, res[p].at) = Visible(res[p].before, res[p].at)
            /\ Ev(res[p].slot) = res[p].prev

\* A get, the third operation, has returned a live entry some time after
\* it was written, and has left it with its value and expiry.
C34_Witness ==
    \E p \in Callers :
        /\ res[p].op = "get"
        /\ HeldLive(res[p])
        /\ res[p].ret.tag = "Some"
        /\ res[p].at > 0
        /\ res[p].seq = 3
        /\ res[p].after.expiry = res[p].before.expiry
        /\ res[p].after.expiry > res[p].at

\* ============================================================== other keys
\* A caller uses the two keys of one cache of the local engine; a put lasts
\* one millisecond or not at all.
KeyedGet(p) == \E k \in CacheKeys : Call(p, "get", k, <<>>, None)
KeyedPop(p) == \E k \in CacheKeys : Call(p, "pop", k, <<>>, None)
KeyedPut(p) ==
    \E k \in CacheKeys, t \in RaceTtls \cup {0} : Call(p, "put", k, RaceVal(p), Some(t))
KeyedReplace(p) ==
    \E k \in CacheKeys, t \in {None} \cup {Some(x) : x \in RaceTtls} :
        Call(p, "replace", k, RaceVal(p), t)

NextKeys ==
    \/ RaceTick
    \/ \E p \in Solo, name \in Names : LocalEngineCache(p, name)
    \/ \E p \in Solo : KeyedGet(p)
    \/ \E p \in Solo : KeyedPop(p)
    \/ \E p \in Solo : KeyedPut(p)
    \/ \E p \in Solo : KeyedReplace(p)
    \/ \E p \in Solo : LocalLock(p)
    \/ \E p \in Solo : LocalCacheGet(p)
    \/ \E p \in Solo : LocalCachePop(p)
    \/ \E p \in Solo : LocalCachePut(p)
    \/ \E p \in Solo : LocalCacheReplace(p)
    \/ \E p \in Solo : LocalCacheReplacePut(p)

\* The engine is the local one.
InitLocalEngine == Init /\ backend = "Local"

SpecKeys == InitLocalEngine /\ [][NextKeys]_vars

\* C35: a step of a get, pop, put or replace of the local cache changes, in
\* the buffer of its cache, the entry under its own key only: the entry
\* under any other key has the same value and expiry after it, and no entry
\* appears or disappears under another key.
C35_OtherKeysUntouched ==
    [][\A n \in DOMAIN data :
          \A k \in DOMAIN data[n] \cup DOMAIN data'[n] :
              Stored(data'[n], k) # Stored(data[n], k) =>
                  \E p \in Callers :
                      /\ pc[p] \in {"body", "replace_put"}
                      /\ pc'[p] # pc[p]
                      /\ handle[p] = n
                      /\ LocalKeySerialize(req[p].key) = k]_vars

\* Both keys of the cache hold an entry, and the last operation, the third,
\* replaced the one written first: the other is as it was put.
C35_Witness ==
    \E p \in Callers, n \in DOMAIN data :
        /\ backend = "Local"
        /\ handle[p] = n
        /\ res[p].op = "replace" /\ res[p].ret.tag = "Some" /\ res[p].seq = 3
        /\ \E k \in DOMAIN data[n] :
               /\ k # res[p].slot[2]
               /\ data[n][k].id > res[p].before.id
               /\ data[n][k].id < res[p].after.id

\* =================================================================== locks
\* The local engines have four kinds of Mutex: the registry of the caches
\* (Engine.data), the Buffer of each cache, the registry of the channels
\* (Engine.channel_types) and the Bus of each channel.  Two callers, each
\* one thread that makes one call at a time, call cache(), get, pop, put and
\* replace on one cache, and channel(), broadcast and listen on one topic.

\* Caller p has no call in progress.
Free(p) ==
    /\ pc[p] \in {"new", "idle"}
    /\ chan[p].pc \in {"new", "ready"}
    /\ bcall[p].pc = "idle"

\* The caller holding the Mutex of bus id, 0 if free.
BusGuard(id) == IF id \in DOMAIN bguard THEN bguard[id] ELSE 0

\* The broadcasts called that have not returned.
Broadcasting == Cardinality({p \in Callers : bcall[p].op = "broadcast"})

\* broadcast or listen is called through the handle of h: the caller waits
\* for the lock of the bus.
LocalBusCall(h, op) ==
    /\ backend = "Local"
    /\ Free(h)
    /\ Ready(h)
    /\ op = "listen" => stream[h].state = "none"
    /\ op = "broadcast" => Broadcasts + Broadcasting < MaxEvents
    /\ bcall' = [bcall EXCEPT ![h] = [pc |-> "lock", op |-> op]]
    /\ UNCHANGED <<cache, caches, channels, calls, topics, templates, secrets, bguard>>

\* self.bus.lock()
LocalBusLock(h) ==
    /\ bcall[h].pc = "lock"
    /\ lock(BusGuard(chan[h].id))
    /\ bguard' = [i \in DOMAIN bguard \cup {chan[h].id} |->
                     IF i = chan[h].id THEN h ELSE bguard[i]]
    /\ bcall' = [bcall EXCEPT ![h].pc = "body"]
    /\ UNCHANGED <<cache, caches, channels, calls, topics, templates, secrets>>

\* local Channel::broadcast under the lock: bus.try_broadcast(event); the
\* guard is dropped.
LocalBusBroadcast(p) ==
    /\ bcall[p].pc = "body"
    /\ bcall[p].op = "broadcast"
    /\ LET e == Event(p, sent[p].n + 1)
           r == try_broadcast(buses[chan[p].id], e)
       IN  /\ buses' = [buses EXCEPT ![chan[p].id] = r.bus]
           /\ Broadcast(p, e, r.ok)
    /\ bguard' = [bguard EXCEPT ![chan[p].id] = 0]
    /\ bcall' = [bcall EXCEPT ![p] = NoBusCall]
    /\ UNCHANGED <<cache, caches, calls, templates, secrets, channel_types, tguard, chan,
                   bus, pubsub>>

\* local Channel::listen under the lock: bus.add_rx(); the guard is dropped.
LocalBusListen(h) ==
    /\ bcall[h].pc = "body"
    /\ bcall[h].op = "listen"
    /\ buses' = [buses EXCEPT ![chan[h].id] = add_rx(@, h)]
    /\ stream' = [stream EXCEPT ![h].state = "active", ![h].past = AllSent]
    /\ bguard' = [bguard EXCEPT ![chan[h].id] = 0]
    /\ bcall' = [bcall EXCEPT ![h] = NoBusCall]
    /\ UNCHANGED <<cache, caches, calls, templates, secrets, channel_types, tguard, chan,
                   bus, pubsub, sent>>

\* A call is made by a caller that has none in progress; a caller calls
\* one operation of its cache and one of its channel.
LockCalls(p) ==
    \/ \E name \in Names : Free(p) /\ LocalCacheCall(p, name, "String")
    \/ Free(p) /\ res[p].op = "none" /\ CallGet(p)
    \/ Free(p) /\ res[p].op = "none" /\ CallPop(p)
    \/ Free(p) /\ res[p].op = "none" /\ RacePut(p)
    \/ Free(p) /\ res[p].op = "none" /\ RaceReplace(p)
    \/ Free(p) /\ LocalChannelCall(p, "String", <<116>>)
    \/ \E op \in {"broadcast", "listen"} :
           sent[p].n = 0 /\ stream[p].state = "none" /\ LocalBusCall(p, op)

\* The steps of the call of p in progress.
LockSteps(p) ==
    \/ LocalRegistryLock(p)
    \/ LocalRegistryEntry(p)
    \/ LocalLock(p)
    \/ LocalCacheGet(p)
    \/ LocalCachePop(p)
    \/ LocalCachePut(p)
    \/ LocalCacheReplace(p)
    \/ LocalCacheReplacePut(p)
    \/ LocalChannelLock(p)
    \/ LocalChannelEntry(p)
    \/ LocalBusLock(p)
    \/ LocalBusBroadcast(p)
    \/ LocalBusListen(p)

NextLocks == \E p \in Callers : LockCalls(p) \/ LockSteps(p)

\* Where each caller is in its calls: every step of a call changes it.
Positions == <<pc, [h \in Subs |-> chan[h].pc], [h \in Callers |-> bcall[h].pc]>>

\* The local engines after construction, as Init has them; the handles no
\* caller has yet are written 0.
InitLocal ==
    /\ backend = "Local"
    /\ now = 0
    /\ data = <<>>
    /\ mutex = <<>>
    /\ db = <<>>
    /\ handle = [p \in Callers |-> 0]
    /\ pc = [p \in Callers |-> "new"]
    /\ req = [p \in Callers |-> NoReq]
    /\ tmp = [p \in Callers |-> NoTmp]
    /\ res = [p \in Callers |-> NoRes]
    /\ ndone = 0
    /\ nid = 0
    /\ hist = <<>>
    /\ InitRegistry /\ InitRemote /\ InitFaults /\ InitTwin /\ InitChannel
    /\ InitCalls /\ InitTemplate /\ InitSecret /\ InitLocks
    /\ channel_types = <<>>
    /\ tguard = 0
    /\ chan = [h \in Subs |-> [NoChannel EXCEPT !.id = 0]]
    /\ buses = <<>>

\* A thread that can take a step does so in the end.
SpecLocks ==
    /\ InitLocal
    /\ [][NextLocks]_vars
    /\ \A p \in Callers : WF_Positions(LockSteps(p))

\* The locks caller p holds.
HeldBy(p) ==
    (IF guard = p THEN {<<"data", 0>>} ELSE {})
        \cup {<<"buffer", n>> : n \in {x \in DOMAIN mutex : mutex[x] = p}}
        \cup (IF tguard = p THEN {<<"channel_types", 0>>} ELSE {})
        \cup {<<"bus", i>> : i \in {x \in DOMAIN bguard : bguard[x] = p}}

\* C36: a local call holds one lock at a time, from its first line to its
\* return, and no caller ever holds two locks; so callers cannot wait for
\* each other in a circle, and every call of cache(), channel(), get, pop,
\* put, replace, broadcast and listen returns in the end, whatever the
\* others do.
C36_NoDeadlock ==
    /\ [](\A p \in Callers :
             /\ Cardinality(HeldBy(p)) <= 1
             /\ Free(p) => HeldBy(p) = {})
    /\ \A p \in Callers : ~Free(p) ~> Free(p)

\* A caller holds the lock of the bus for its broadcast while the other,
\* which has listened on the same bus, holds the lock of the buffer both use;
\* the registries are unlocked.
C36_Witness ==
    \E p, q \in Callers :
        /\ p # q
        /\ HeldBy(p) = {<<"bus", 1>>}
        /\ bcall[p].op = "broadcast"
        /\ Active(q) /\ chan[q].id = chan[p].id
        /\ handle[p] = handle[q]
        /\ HeldBy(q) = {<<"buffer", handle[q]>>}
        /\ raced

\* ============================================================ strict expiry
\* C37: in the local cache an entry is live exactly while the instant read
\* is before its expiry: a get, pop or replace that finds an entry under its
\* key returns its value if it reads before the expiry and none from the
\* instant of expiry on; a put or replace with ttl 0 writes an entry that
\* expires at the instant it is written, so no operation returns it.
C37_StrictExpiry ==
    \A p \in Callers :
        backend = "Local" =>
            /\ (res[p].op \in {"get", "pop", "replace"} /\ res[p].before # NoData) =>
                   /\ res[p].at < res[p].before.expiry => res[p].ret.tag = "Some"
                   /\ res[p].at >= res[p].before.expiry => res[p].ret = None
            /\ (res[p].op \in {"put", "replace"} /\ res[p].ttl = Some(0)
                    /\ res[p].after # NoData) =>
                   res[p].after.expiry <= res[p].wat
            /\ (res[p].op \in {"get", "pop", "replace"} /\ res[p].ret.tag = "Some") =>
                   res[p].at < res[p].prev.deadline

\* A replace with ttl 0 has found a live entry, some time after it was
\* written, and has left in its place one that expires as it is written.
C37_Witness ==
    \E p \in Callers :
        /\ backend = "Local"
        /\ res[p].op = "replace"
        /\ res[p].ttl = Some(0)
        /\ res[p].at > 0
        /\ res[p].at < res[p].before.expiry
        /\ res[p].ret.tag = "Some"
        /\ res[p].after # NoData
        /\ res[p].after.expiry = res[p].wat

\* ========================================================= topics by type
\* C38: on the local backend the handles for one topic name with different
\* event types have different buses: a subscription yields, and has held
\* for it, only events broadcast through handles of its own topic and event
\* type, and a bus carries no event of another type, so a broadcast with
\* one type takes no room in the queue of a subscription of another.
C38_ScopedByType ==
    backend = "Local" =>
        /\ \A g, h \in Subs :
               (Ready(g) /\ Ready(h) /\ chan[g].topic = chan[h].topic
                    /\ chan[g].ty # chan[h].ty)
               => chan[g].id # chan[h].id
        /\ \A h \in Subs :
               Active(h) =>
                   LET items == Events(stream[h].got) \o Unread(buses[chan[h].id], h)
                   IN  \A i \in 1..Len(items) : SameTopic(ProducerOf(items[i]), h)
        /\ \A b \in 1..Len(buses) :
               \A i \in 1..Len(buses[b].log) :
                   LET p == ProducerOf(buses[b].log[i])
                   IN  buses[b].key = <<chan[p].ty, chan[p].topic>>

\* Two handles for one topic name with different event types each have a
\* subscription; an event was broadcast through the first, whose
\* subscription yielded it, and the other subscription has nothing.
C38_Witness ==
    \E g, h \in Subs :
        /\ backend = "Local"
        /\ Ready(g) /\ Ready(h)
        /\ chan[g].topic = chan[h].topic
        /\ chan[g].ty # chan[h].ty
        /\ Active(g) /\ Active(h)
        /\ stream[g].past = {} /\ stream[h].past = {}
        /\ stream[g].got = <<Some(Event(g, 1))>>
        /\ stream[h].got = <<>>
        /\ stream[h].ends > 0
        /\ Unread(buses[chan[h].id], h) = <<>>

\* ======================================================= dropped streams
\* The stream returned by the local listen owns the BusReader; dropping the
\* stream drops the reader, which tells the bus the seat it had reached.
\* The bus takes the notice when a broadcast finds the ring full, before it
\* decides: from then on the seats the reader had not read count as read.

\* A drop the bus is not told of.
leave_unnoticed(b, s) == b

\* BusReader::drop, and the bus taking its notice.
leave(b, s) == [b EXCEPT !.head[s] = -1]

\* The stream of subscription s is dropped.
LocalDrop(s) ==
    /\ backend = "Local"
    /\ stream[s].state = "active"
    /\ bus' = leave(bus, s)
    /\ stream' = [stream EXCEPT ![s].state = "dropped"]
    /\ UNCHANGED <<cache, caches, more, pubsub, sent>>

NextDrop ==
    \/ \E s \in Subs : LocalListen(s)
    \/ \E p \in Producers : LocalBroadcast(p)
    \/ \E s \in Subs : LocalPoll(s)
    \/ \E s \in Subs : LocalDrop(s)

SpecDrop == InitLocalEngine /\ [][NextDrop]_vars

\* What subscription s had been given and had not yielded when it was
\* dropped.
Abandoned(s) == Len(stream[s].due) - Len(stream[s].got)

\* C39: a subscription whose stream was dropped is not an active
\* subscription: a broadcast returns the queue-full error only when a
\* subscription that is still active holds queue_size events, and with none
\* such it succeeds, whatever the dropped subscriptions had left unread.
C39_DroppedFreesQueue ==
    [][\A p \in Producers :
          Returns(p) =>
              (sent'[p].ret = Err("Connection")
                   <=> \E s \in Subs : Active(s) /\ Len(Pending(s)) >= QueueSize)]_vars

\* A subscription was dropped with queue_size events unread, and the
\* broadcast after that succeeded.
C39_Witness ==
    \E s \in Subs, p \in Producers :
        /\ stream[s].state = "dropped"
        /\ Abandoned(s) = QueueSize
        /\ sent[p].n > 0
        /\ sent[p].ret = Unit
        /\ \A i \in 1..Len(stream[s].due) : stream[s].due[i] # Event(p, sent[p].n)
        /\ Broadcasts = QueueSize + 1

\* ============================================================= termination
\* Template::text runs on: a call made is carried on, turn after turn of the
\* loop of interpolate, until it returns or panics.
SpecTemplateRuns == Init /\ [][NextTemplate]_vars /\ WF_vars(NextTemplate)

\* C40: Template::text comes to its end, whatever the body and the
\* replacements: interpolate leaves its loop.
C40_Terminates == <>Ended

====
